---------------------------- MODULE Spec2Model ----------------------------
(***************************************************************************)
(* A model of the redistricting core of autoredistrict:                    *)
(*   - RedistrictingAlgorithm (src/redistricting_algorithms.py): the       *)
(*     recursive angular bisection of a unit table into districts, with    *)
(*     its split scorer, on the CPU and on the GPU path;                   *)
(*   - calculate_apportionment (src/src/core/apportionment.py): the        *)
(*     Huntington-Hill allocation of house seats to states.                *)
(*                                                                         *)
(* Geometry.  A unit is a unit square of a small grid (as the squares      *)
(* box(i, j, i+1, j+1) of _demo_dataset in src/src/cli.py); a region is a  *)
(* set of units, the rows a boolean mask selects.  to_crs() changes        *)
(* coordinates, never rows: the coordinates of the model are those of the  *)
(* frame in which the side test is evaluated.                              *)
(*                                                                         *)
(* Numbers.  Populations are integer counts.  Floating-point scores are    *)
(* kept in fixed point, Scale to 1; the side test multiplies both offsets  *)
(* by a positive integer and reads sine and cosine to six digits, which    *)
(* gives the sign the floating-point test gives for every region of the    *)
(* model.  Two candidate splits whose scores are equal as real numbers     *)
(* have equal scores here, where the floating-point scores of the program  *)
(* may still differ in their last bit.                                     *)
(***************************************************************************)
EXTENDS Integers, Sequences, FiniteSets, TLC

(***************************************************************************)
(* Bounds of the model.                                                    *)
(***************************************************************************)
MaxUnits == 3        \* at most this many units in a unit table
MaxSeats == 4        \* requested seat counts range over MinSeats..MaxSeats
MaxStates == 3       \* at most this many states in an apportionment
MaxHouse == 5        \* house sizes range over 0..MaxHouse
MaxRequested == 50   \* seat counts of the recursion over seat counts alone
MaxScored == 2       \* at most this many scoring calls are logged
MaxColumn == 2       \* is_contiguous is called on units of columns 0..MaxColumn
MaxLoaded == 2       \* at most this many units in a table handed to the constructor
MaxProviders == 3    \* at most this many provider keys are configured
MaxRetries == 3      \* _with_retries is called with retries in 0..MaxRetries
MaxCalls == 8        \* calls of _ensure_dataset_file in one behaviour
DatasetChunks == 4   \* chunks of the complete dataset file

MinSeats == 0 - 1    \* a negative, a zero and the positive seat counts

\* The unit squares the units are drawn from: <<i, j>> is box(i, j, i+1, j+1).
\* Three in a row and two above them: rows, columns, an L and a 2 x 2 block.
Cells == {<<0, 0>>, <<1, 0>>, <<2, 0>>, <<0, 1>>, <<1, 1>>}

\* The attribute rows a unit is drawn from: P1_001N (total population),
\* P1_003N (the "non-minority" subtotal) and party (tenths: 3 is 0.3).
UnitKinds ==
    { [P1_001N |-> 0, P1_003N |-> 0, party |-> 3],
      [P1_001N |-> 1, P1_003N |-> 1, party |-> 7],
      [P1_001N |-> 2, P1_003N |-> 0, party |-> 3] }

\* The populations a state is drawn from.
StatePops == {100, 300, 900}

Scale == 1000 * 1000

(***************************************************************************)
(* Arithmetic helpers.                                                     *)
(***************************************************************************)
Abs(x) == IF x < 0 THEN 0 - x ELSE x

\* Python's int(): truncation towards zero of the quotient a / b.
TruncDiv(a, b) ==
    IF (a >= 0) = (b > 0) THEN Abs(a) \div Abs(b) ELSE 0 - (Abs(a) \div Abs(b))

RECURSIVE SumOver(_, _)
SumOver(S, f) ==
    IF S = {} THEN 0
    ELSE LET u == CHOOSE v \in S : TRUE IN f[u] + SumOver(S \ {u}, f)

\* A function as an explicit table of its values, each computed once.
Table(f) == f @@ <<>>

RECURSIVE SumSeq(_)
SumSeq(s) == IF s = <<>> THEN 0 ELSE Head(s) + SumSeq(Tail(s))


(***************************************************************************)
(* Unit tables and regions.  A table maps the units it holds to their      *)
(* attribute rows; a region (area_gdf, part1, part2) is a set of units.    *)
(***************************************************************************)
Tables ==
    UNION { [U -> UnitKinds] : U \in {V \in SUBSET Cells : Cardinality(V) <= MaxUnits} }

\* A cell of a numeric column as the caller loaded it: a number, a string
\* that spells a number ("2"), a string that spells none ("n/a"), or a
\* missing value (NaN, None).
\* Only a number and a numeral carry a value; NoValue fills the field of the
\* other cells and is no value a column holds.
NoValue == 0 - 1
Number(n) == [form |-> "number", value |-> n]
Numeral(n) == [form |-> "numeral", value |-> n]
Word == [form |-> "word", value |-> NoValue]
Missing == [form |-> "missing", value |-> NoValue]

\* The rows a loaded unit is drawn from: the numeric columns hold cells,
\* party is a number.  The constructor turns each into a row of UnitKinds.
LoadedKinds ==
    { [P1_001N |-> Number(0), P1_003N |-> Number(0), party |-> 3],
      [P1_001N |-> Number(1), P1_003N |-> Number(1), party |-> 7],
      [P1_001N |-> Number(2), P1_003N |-> Number(0), party |-> 3],
      [P1_001N |-> Numeral(1), P1_003N |-> Numeral(1), party |-> 7],
      [P1_001N |-> Missing, P1_003N |-> Missing, party |-> 3],
      [P1_001N |-> Number(2), P1_003N |-> Word, party |-> 3],
      [P1_001N |-> Word, P1_003N |-> Number(0), party |-> 3] }

LoadedTables ==
    UNION { [U -> LoadedKinds] : U \in {V \in SUBSET Cells : Cardinality(V) <= MaxLoaded} }

\* A table of numbers, as a loaded table whose cells are all numbers.
AsLoaded(data) ==
    [u \in DOMAIN data |->
        [P1_001N |-> Number(data[u].P1_001N),
         P1_003N |-> Number(data[u].P1_003N),
         party |-> data[u].party]]

\* The numbers of a loaded table whose numeric cells are all numbers.
AsNumbers(loaded) ==
    [u \in DOMAIN loaded |->
        [P1_001N |-> loaded[u].P1_001N.value,
         P1_003N |-> loaded[u].P1_003N.value,
         party |-> loaded[u].party]]

\* gdf[col].sum() over the rows of a region.
ColSum(data, area, col) == SumOver(area, [u \in area |-> data[u][col]])

\* The x and y of a unit's centroid, doubled: box(i, j, i+1, j+1) has its
\* centroid at (i + 1/2, j + 1/2).
CentroidX2(u) == 2 * u[1] + 1
CentroidY2(u) == 2 * u[2] + 1

\* The number of unit-square edges two units of a region share; the union of
\* the squares has area |region| and perimeter 4 |region| - 2 SharedEdges.
SharedEdges(area) ==
    Cardinality({ p \in area \X area :
                    \/ p[2][1] = p[1][1] + 1 /\ p[2][2] = p[1][2]
                    \/ p[2][1] = p[1][1] /\ p[2][2] = p[1][2] + 1 })

UnionArea(area) == Cardinality(area)
UnionLength(area) == 4 * Cardinality(area) - 2 * SharedEdges(area)

\* 4 * pi in fixed point.
FourPi == 12566371

_polsby_popper_static(area) ==
    IF area = {} \/ UnionArea(area) = 0 THEN 0
    ELSE IF UnionLength(area) = 0 THEN 0
    ELSE (FourPi * UnionArea(area)) \div (UnionLength(area) * UnionLength(area))

\* The compactness of every region of the model.
Compactness ==
    Table([area \in {V \in SUBSET Cells : Cardinality(V) <= MaxUnits} |->
        _polsby_popper_static(area)])

(***************************************************************************)
(* The candidate angles np.linspace(0, 180, 10), and the sine and cosine   *)
(* of each in fixed point.  In floating point sin(deg2rad(180)) is not 0   *)
(* but 1.22e-16: SinResidue keeps its sign, which decides the side of a    *)
(* unit whose centroid is level with the region's.                         *)
(***************************************************************************)
NumAngles == 10
LinSpace(start, stop, num) ==
    [k \in 1..num |-> start + ((k - 1) * (stop - start)) \div (num - 1)]
\* Mutant: the end point 180 is left out and the 0 line is tried twice.
Angles_NoEndpoint ==
    [k \in 1..NumAngles |->
        LinSpace(0, 180, NumAngles)[IF k = NumAngles THEN 1 ELSE k]]
Angles == LinSpace(0, 180, NumAngles)

SinOf(angle) ==
    CASE angle = 0 -> 0          [] angle = 20 -> 342020
      [] angle = 40 -> 642788    [] angle = 60 -> 866025
      [] angle = 80 -> 984808    [] angle = 100 -> 984808
      [] angle = 120 -> 866025   [] angle = 140 -> 642788
      [] angle = 160 -> 342020   [] angle = 180 -> 0
CosOf(angle) ==
    CASE angle = 0 -> 1000000    [] angle = 20 -> 939693
      [] angle = 40 -> 766044    [] angle = 60 -> 500000
      [] angle = 80 -> 173648    [] angle = 100 -> 0 - 173648
      [] angle = 120 -> 0 - 500000   [] angle = 140 -> 0 - 766044
      [] angle = 160 -> 0 - 939693   [] angle = 180 -> 0 - 1000000
SinResidue(angle) == IF angle = 180 THEN 1 ELSE 0

\* (centroids_x - c_x) * sin_rad - (centroids_y - c_y) * cos_rad > 0, with
\* c_x, c_y the mean of the region's centroids; both offsets are multiplied
\* by 2 |region| > 0, which keeps the sign.
_calculate_side(area, u, angle) ==
    LET n  == Cardinality(area)
        dx == n * CentroidX2(u) - SumOver(area, [v \in area |-> CentroidX2(v)])
        dy == n * CentroidY2(u) - SumOver(area, [v \in area |-> CentroidY2(v)])
        v  == dx * SinOf(angle) - dy * CosOf(angle)
    IN  v > 0 \/ (v = 0 /\ dx * SinResidue(angle) > 0)

\* The regions of the model, and for each region and candidate angle the
\* boolean mask `side` as the set of units it selects.
Regions == {V \in SUBSET Cells : Cardinality(V) <= MaxUnits}
SideMask ==
    Table([area \in Regions |->
        Table([k \in 1..NumAngles |->
            {u \in area : _calculate_side(area, u, Angles[k])}])])

\* area_gdf[side] and area_gdf[~side] at the k-th candidate angle.
MaskTrue(area, k) == SideMask[area][k]
\* Mutant: part2 selected with the same mask as part1.
MaskFalse_SameMask(area, k) == SideMask[area][k]
MaskFalse(area, k) == area \ SideMask[area][k]

(***************************************************************************)
(* The split scorer.  cfg holds the weights of the algorithm object        *)
(* (population_equality_weight, compactness_weight, partisan_weight,       *)
(* coi_weight: 0 or 1), vra_compliance and communities_of_interest.        *)
(* target_pop1 = (total / (n1 + n2)) * n1 is the fraction tnum / tden.     *)
(***************************************************************************)
\* abs(pop1 - target_pop1) / target_pop1 if target_pop1 > 0 else 0
PopBalanceScore(data, part1, tnum, tden) ==
    IF tnum > 0
    THEN (Scale * Abs(ColSum(data, part1, "P1_001N") * tden - tnum)) \div tnum
    ELSE 0

\* 1 - (compactness1 + compactness2) / 2
CompactnessScore(part1, part2) ==
    Scale - (Compactness[part1] + Compactness[part2]) \div 2

\* (total - P1_003N) / total if total > 0 else 0, as the fraction <<num, den>>.
MinorityShare(data, area) ==
    LET total == ColSum(data, area, "P1_001N")
    IN  IF total > 0 THEN <<total - ColSum(data, area, "P1_003N"), total>>
        ELSE <<0, 1>>

FracLess(a, b) == a[1] * b[2] < b[1] * a[2]
FracFixed(a) == (Scale * a[1]) \div a[2]

\* Mutant: one child's share below the parent's is enough for the penalty.
VraScore_EitherChild(data, area, part1, part2, vra_compliance) ==
    LET ma == MinorityShare(data, area)
        m1 == MinorityShare(data, part1)
        m2 == MinorityShare(data, part2)
    IN  IF vra_compliance /\ FracLess(<<3, 10>>, ma)
           /\ (FracLess(m1, ma) \/ FracLess(m2, ma))
        THEN FracFixed(ma) - (FracFixed(m1) + FracFixed(m2)) \div 2
        ELSE 0

VraScore(data, area, part1, part2, vra_compliance) ==
    LET ma == MinorityShare(data, area)
        m1 == MinorityShare(data, part1)
        m2 == MinorityShare(data, part2)
    IN  IF vra_compliance /\ FracLess(<<3, 10>>, ma)
           /\ FracLess(m1, ma) /\ FracLess(m2, ma)
        THEN FracFixed(ma) - (FracFixed(m1) + FracFixed(m2)) \div 2
        ELSE 0

\* part[part['party'] > 0.5].shape[0] / part.shape[0] if part.shape[0] > 0 else 0
PartyShare(data, part) ==
    IF Cardinality(part) > 0
    THEN (Scale * Cardinality({u \in part : data[u].party > 5})) \div Cardinality(part)
    ELSE 0

PartisanScore(data, part1, part2, partisan_weight) ==
    IF partisan_weight > 0
    THEN Scale - Abs(PartyShare(data, part1) - Scale \div 2)
               - Abs(PartyShare(data, part2) - Scale \div 2)
    ELSE 0

\* Mutant: the penalty is charged as soon as part1 holds a community unit.
CoiScore_Part1Only(area, part1, part2, communities_of_interest) ==
    IF communities_of_interest # {}
       /\ area \cap communities_of_interest # {}
       /\ part1 \cap communities_of_interest # {}
    THEN Scale
    ELSE 0

CoiScore(area, part1, part2, communities_of_interest) ==
    IF communities_of_interest # {}
       /\ area \cap communities_of_interest # {}
       /\ part1 \cap communities_of_interest # {}
       /\ part2 \cap communities_of_interest # {}
    THEN Scale
    ELSE 0

\* Mutant: the population term is weighted by the partisan weight.
_calculate_split_score_static_WrongWeight(data, cfg, area, part1, part2, tnum, tden) ==
    cfg.partisan_weight * PopBalanceScore(data, part1, tnum, tden)
    + cfg.compactness_weight * CompactnessScore(part1, part2)
    + cfg.partisan_weight * PartisanScore(data, part1, part2, cfg.partisan_weight)
    + cfg.coi_weight * CoiScore(area, part1, part2, cfg.communities_of_interest)
    + VraScore(data, area, part1, part2, cfg.vra_compliance)

_calculate_split_score_static(data, cfg, area, part1, part2, tnum, tden) ==
    cfg.population_equality_weight * PopBalanceScore(data, part1, tnum, tden)
    + cfg.compactness_weight * CompactnessScore(part1, part2)
    + cfg.partisan_weight * PartisanScore(data, part1, part2, cfg.partisan_weight)
    + cfg.coi_weight * CoiScore(area, part1, part2, cfg.communities_of_interest)
    + VraScore(data, area, part1, part2, cfg.vra_compliance)

(***************************************************************************)
(* The search for the best split.  A split is a record; NoSplit is None.   *)
(***************************************************************************)
Inf == 1000000000    \* float('inf'): above every finite score

NoSplit == [none |-> TRUE, part1 |-> {}, part2 |-> {}]
SplitOf(p1, p2) == [none |-> FALSE, part1 |-> p1, part2 |-> p2]

\* _process_angle at the k-th candidate angle: (inf, None) when a side is
\* empty, else (score, split).
_process_angle(data, cfg, k, area, tnum, tden) ==
    LET part1 == MaskTrue(area, k)
        part2 == MaskFalse(area, k)
    IN  IF part1 = {} \/ part2 = {}
        THEN [score |-> Inf, split |-> NoSplit]
        ELSE [score |-> _calculate_split_score_static(data, cfg, area, part1, part2, tnum, tden),
              split |-> SplitOf(part1, part2)]

\* Mutant: a later candidate with an equal score replaces the best one.
RECURSIVE BestOf_LastMin(_, _, _)
BestOf_LastMin(results, k, best) ==
    IF k > Len(results) THEN best
    ELSE LET r == results[k]
         IN  BestOf_LastMin(results, k + 1,
                            IF r.score <= best.score /\ ~r.split.none THEN r ELSE best)

\* for score, split in results: if score < best_score: take it.
RECURSIVE BestOf(_, _, _)
BestOf(results, k, best) ==
    IF k > Len(results) THEN best
    ELSE LET r == results[k]
         IN  BestOf(results, k + 1, IF r.score < best.score THEN r ELSE best)

\* Mutant: no early return for a region of population 0.
_find_best_split_cpu_NoZeroCheck(data, cfg, area, n1, n2) ==
    LET tnum == ColSum(data, area, "P1_001N") * n1
        tden == n1 + n2
        results == [k \in 1..NumAngles |->
                       _process_angle(data, cfg, k, area, tnum, tden)]
    IN  BestOf(results, 1, [score |-> Inf, split |-> NoSplit]).split

_find_best_split_cpu(data, cfg, area, n1, n2) ==
    LET total_population == ColSum(data, area, "P1_001N")
        tnum == total_population * n1
        tden == n1 + n2
        results == [k \in 1..NumAngles |->
                       _process_angle(data, cfg, k, area, tnum, tden)]
    IN  IF total_population = 0 THEN NoSplit
        ELSE BestOf(results, 1, [score |-> Inf, split |-> NoSplit]).split

\* The GPU loop: an angle with an empty side is skipped (continue), the
\* others are scored and compared in angle order.
RECURSIVE GpuLoop(_, _, _, _, _, _, _)
GpuLoop(data, cfg, area, tnum, tden, k, best) ==
    IF k > NumAngles THEN best
    ELSE LET part1 == MaskTrue(area, k)
             part2 == MaskFalse(area, k)
             score == _calculate_split_score_static(data, cfg, area, part1, part2, tnum, tden)
         IN  GpuLoop(data, cfg, area, tnum, tden, k + 1,
                     IF part1 = {} \/ part2 = {} THEN best
                     ELSE IF score < best.score
                          THEN [score |-> score, split |-> SplitOf(part1, part2)]
                          ELSE best)

_find_best_split_gpu(data, cfg, area, n1, n2) ==
    LET total_population == ColSum(data, area, "P1_001N")
    IN  IF total_population = 0 THEN NoSplit
        ELSE GpuLoop(data, cfg, area, total_population * n1, n1 + n2, 1,
                     [score |-> Inf, split |-> NoSplit]).split

(***************************************************************************)
(* State.                                                                  *)
(*   The RedistrictingAlgorithm object: state_data, num_districts, the     *)
(*   weights, use_gpu and partitions_done.                                 *)
(*   The run in progress: pc, the call stack of _recursive_partition_*     *)
(*   (the regions still to be partitioned, the next one first, each with   *)
(*   its num_districts_to_create), the districts returned so far in order, *)
(*   and the values progress_update has emitted in this run.               *)
(*   One call of calculate_apportionment: state_populations (the mapping   *)
(*   in its enumeration order), house_size, seats, remaining_seats and     *)
(*   app_pc.                                                               *)
(*   The caller's side: algorithm, the entry point of the current or last  *)
(*   run, and given_data, the unit table as it was before the constructor  *)
(*   was called on it (state_data is that same table object afterwards).   *)
(*   The utilities: scored, the calls of the split scorer made so far, and *)
(*   one call of is_contiguous: gdf, con_pc and con_result.                *)
(*   One call of DataFetcherWorker._attach_partisan_scores: provider_keys  *)
(*   (each key named for what its provider does when asked), the loop      *)
(*   position provider_index, the providers contacted so far, the          *)
(*   partisan_score the units hold, active_provider_meta (0 is None, else  *)
(*   the position of the provider in the list) and attach_pc.              *)
(*   One call of DataFetcherWorker._get_shapefiles: whether shapefile_dir  *)
(*   exists and the .shp files in it, what the HEAD request and the        *)
(*   download answer, shape_pc, and the shapefile_path returned.           *)
(*   One call of RedistrictingWorker.run: the worker's fields coi_file     *)
(*   (self.communities_of_interest), algorithm_name, finished_callback and *)
(*   error_callback (set or not); what the partitioner does when called    *)
(*   (run_outcome); the locals coi_list and algorithm (algorithm_bound);   *)
(*   the calls made to the two callbacks; and run_pc.                      *)
(*   One call of DataFetcherWorker._with_retries: retries, base_delay (in  *)
(*   tenths of a second), what func does at its k-th call (func_outcomes), *)
(*   the loop variable attempt, the number of calls of func made, the      *)
(*   delays slept (tenths of a second), retry_result and retry_pc.         *)
(*   The cache of CountyPresidentialReturnsProvider: whether the file at   *)
(*   cache_path exists and its size in chunks, the number of downloads     *)
(*   started, and what each call of _ensure_dataset_file returned.         *)
(***************************************************************************)
VARIABLES state_data, num_districts, population_equality_weight,
          compactness_weight, partisan_weight, vra_compliance,
          communities_of_interest, coi_weight, use_gpu, partitions_done,
          pc, stack, districts, emitted,
          state_populations, house_size, seats, remaining_seats, app_pc,
          algorithm, given_data, callers_data,
          scored, gdf, con_pc, con_result,
          provider_keys, provider_index, contacted, partisan_score,
          active_provider_meta, attach_pc,
          shapefile_dir, shapefiles, head_response, download_response,
          shape_pc, shapefile_path,
          coi_file, algorithm_name, finished_callback, error_callback,
          run_outcome, coi_list, algorithm_bound, finished_calls,
          error_calls, run_pc,
          retries, base_delay, func_outcomes, attempt, retry_calls,
          retry_sleeps, retry_result, retry_pc,
          cache_exists, cache_size, downloads, dataset_returns

algoVars == <<state_data, num_districts, population_equality_weight,
              compactness_weight, partisan_weight, vra_compliance,
              communities_of_interest, coi_weight, use_gpu, partitions_done,
              pc, stack, districts, emitted>>
appVars == <<state_populations, house_size, seats, remaining_seats, app_pc>>
\* The caller's side of the object: the entry point of the current or last
\* run ("fair" for divide_and_conquer, "gerrymander", "none" before any), and
\* the unit table as the caller held it before the constructor was called;
\* callers_data is that table as the caller holds it now.
callVars == <<algorithm, given_data, callers_data>>
\* The standalone utilities: the log of split-scoring calls, and one call of
\* is_contiguous (its argument, its position and its result).
utilVars == <<scored, gdf, con_pc, con_result>>
\* One call of DataFetcherWorker._attach_partisan_scores.
attachVars == <<provider_keys, provider_index, contacted, partisan_score,
                active_provider_meta, attach_pc>>
\* One call of DataFetcherWorker._get_shapefiles.
shapeVars == <<shapefile_dir, shapefiles, head_response, download_response,
               shape_pc, shapefile_path>>
\* One call of RedistrictingWorker.run.
runVars == <<coi_file, algorithm_name, finished_callback, error_callback,
             run_outcome, coi_list, algorithm_bound, finished_calls,
             error_calls, run_pc>>
\* One call of DataFetcherWorker._with_retries.
retryVars == <<retries, base_delay, func_outcomes, attempt, retry_calls,
               retry_sleeps, retry_result, retry_pc>>
\* The workers around the core.
\* The dataset cache of CountyPresidentialReturnsProvider.
datasetVars == <<cache_exists, cache_size, downloads, dataset_returns>>
workerVars == <<attachVars, shapeVars, runVars, retryVars, datasetVars>>
vars == <<algoVars, appVars, callVars, utilVars, workerVars>>

\* The weights and switches the scorer reads from the object.
Cfg ==
    [population_equality_weight |-> population_equality_weight,
     compactness_weight |-> compactness_weight,
     partisan_weight |-> partisan_weight,
     vra_compliance |-> vra_compliance,
     communities_of_interest |-> communities_of_interest,
     coi_weight |-> coi_weight]

\* The constructor arguments a run is made with: the defaults, and those of
\* the CLI's COI-enforced call.  (partisan_weight 1 is reached by
\* gerrymander().)
Configs ==
    { [population_equality_weight |-> 1, compactness_weight |-> 1,
       partisan_weight |-> 0, vra_compliance |-> FALSE,
       communities_of_interest |-> {}, coi_weight |-> 1],
      [population_equality_weight |-> 1, compactness_weight |-> 1,
       partisan_weight |-> 0, vra_compliance |-> TRUE,
       communities_of_interest |-> {<<0, 0>>, <<1, 0>>}, coi_weight |-> 1] }

\* RedistrictingAlgorithm.__init__
InitAlgorithm ==
    /\ state_data \in Tables
    /\ num_districts \in MinSeats..MaxSeats
    /\ \E c \in Configs :
          /\ population_equality_weight = c.population_equality_weight
          /\ compactness_weight = c.compactness_weight
          /\ partisan_weight = c.partisan_weight
          /\ vra_compliance = c.vra_compliance
          /\ communities_of_interest = c.communities_of_interest
          /\ coi_weight = c.coi_weight
    /\ use_gpu \in BOOLEAN
    /\ partitions_done = 0
    /\ pc = "idle"
    /\ stack = <<>>
    /\ districts = <<>>
    /\ emitted = <<>>
    /\ algorithm = "none"
    /\ given_data = AsLoaded(state_data)
    /\ callers_data = given_data

NoApportionment ==
    /\ state_populations = <<>>
    /\ house_size = 0
    /\ seats = <<>>
    /\ remaining_seats = 0
    /\ app_pc = "idle"

NoUtilities ==
    /\ scored = <<>>
    /\ gdf = {}
    /\ con_pc = "idle"
    /\ con_result = FALSE

NoAttach ==
    /\ provider_keys = <<>>
    /\ provider_index = 1
    /\ contacted = <<>>
    /\ partisan_score = "unset"
    /\ active_provider_meta = 0
    /\ attach_pc = "idle"

NoShapefiles ==
    /\ shapefile_dir = FALSE
    /\ shapefiles = {}
    /\ head_response = "not_newer"
    /\ download_response = "fails"
    /\ shape_pc = "idle"
    /\ shapefile_path = "pending"

NoWorkerRun ==
    /\ coi_file = "none"
    /\ algorithm_name = "Divide and Conquer"
    /\ finished_callback = FALSE
    /\ error_callback = FALSE
    /\ run_outcome = "returns"
    /\ coi_list = "None"
    /\ algorithm_bound = FALSE
    /\ finished_calls = 0
    /\ error_calls = 0
    /\ run_pc = "idle"

\* What a call of _with_retries ends with: nothing yet, the value of the
\* k-th call of func, the exception of the k-th call, or None.
Pending == [kind |-> "pending", call |-> 0]
Returned(k) == [kind |-> "value", call |-> k]
Raised(k) == [kind |-> "raised", call |-> k]
ReturnedNone == [kind |-> "None", call |-> 0]

NoRetries ==
    /\ retries = 0
    /\ base_delay = 0
    /\ func_outcomes = <<>>
    /\ attempt = 1
    /\ retry_calls = 0
    /\ retry_sleeps = <<>>
    /\ retry_result = Pending
    /\ retry_pc = "idle"

NoDataset ==
    /\ cache_exists = FALSE
    /\ cache_size = 0
    /\ downloads = 0
    /\ dataset_returns = <<>>

NoWorkers == NoAttach /\ NoShapefiles /\ NoWorkerRun /\ NoRetries /\ NoDataset

Init == InitAlgorithm /\ NoApportionment /\ NoUtilities /\ NoWorkers

(***************************************************************************)
(* The recursive partitioner.                                              *)
(***************************************************************************)
Frame(area, n) == [area |-> area, n |-> n]

\* Mutant: the first half is rounded up.
SeatsFirst_Ceil(n) == (n + 1) \div 2
\* num_districts_1 = num_districts_to_create // 2
SeatsFirst(n) == n \div 2
\* Mutant: the second half gets the floor as well.
SeatsSecond_Floor(n) == n \div 2
\* num_districts_2 = num_districts_to_create - num_districts_1
SeatsSecond(n) == n - SeatsFirst(n)

\* Mutant: a region with one seat is split again.
IsLeaf_Zero(n) == n <= 0
\* if num_districts_to_create <= 1
IsLeaf(n) == n <= 1

\* self._find_best_split_cpu / _gpu of the region on top of the stack.
BestSplit(area, n) ==
    IF use_gpu
    THEN _find_best_split_gpu(state_data, Cfg, area, SeatsFirst(n), SeatsSecond(n))
    ELSE _find_best_split_cpu(state_data, Cfg, area, SeatsFirst(n), SeatsSecond(n))

\* best_split is None or ... or part1.empty or part2.empty
SplitFailed(best) == best.none \/ best.part1 = {} \/ best.part2 = {}

\* Mutant: the percentage is rounded to the nearest integer.
Progress_Rounded(done, total) == TruncDiv(done * 200 + total, 2 * total)

\* The quotient done / total is rounded to a double and so is its product
\* with 100.  For 0 <= done <= total <= 100 the product is the exact
\* percentage or just above it, except for these <<done, total>>, where the
\* exact percentage is a whole number and the product falls just short of it
\* ((29 / 50) * 100 is 57.99999999999999).
FloatShortfall(done, total) ==
    IF <<done, total>> \in {<<29, 50>>, <<29, 100>>, <<57, 100>>, <<58, 100>>}
    THEN 1 ELSE 0

\* int((self.partitions_done / self.num_districts) * 100)
Progress(done, total) ==
    TruncDiv(done * 100, total) - FloatShortfall(done, total)

\* Mutant: the leaf counter is left as the last run left it.
StartRun_KeepsCounter ==
    /\ pc \in {"idle", "done", "error"}
    /\ partitions_done' = partitions_done
    /\ stack' = <<Frame(DOMAIN state_data, num_districts)>>
    /\ districts' = <<>>
    /\ emitted' = <<>>
    /\ pc' = "running"

StartRun ==
    /\ pc \in {"idle", "done", "error"}
    /\ partitions_done' = 0
    /\ stack' = <<Frame(DOMAIN state_data, num_districts)>>
    /\ districts' = <<>>
    /\ emitted' = <<>>
    /\ pc' = "running"

divide_and_conquer ==
    /\ StartRun
    /\ algorithm' = "fair"
    /\ UNCHANGED <<state_data, num_districts, population_equality_weight,
                   compactness_weight, partisan_weight, vra_compliance,
                   communities_of_interest, coi_weight, use_gpu>>
    /\ UNCHANGED <<appVars, given_data, callers_data, utilVars, workerVars>>

gerrymander ==
    /\ StartRun
    /\ partisan_weight' = 1
    /\ algorithm' = "gerrymander"
    /\ UNCHANGED <<state_data, num_districts, population_equality_weight,
                   compactness_weight, vra_compliance,
                   communities_of_interest, coi_weight, use_gpu>>
    /\ UNCHANGED <<appVars, given_data, callers_data, utilVars, workerVars>>

objectVars == <<state_data, num_districts, population_equality_weight,
                compactness_weight, partisan_weight, vra_compliance,
                communities_of_interest, coi_weight, use_gpu>>

\* A region with at most one seat: count it, emit progress, return it.
\* With num_districts = 0 the division raises ZeroDivisionError after the
\* counter was incremented; the exception unwinds the whole call stack.
Leaf ==
    /\ pc = "running" /\ stack # <<>>
    /\ IsLeaf(Head(stack).n)
    /\ partitions_done' = partitions_done + 1
    /\ IF num_districts = 0
       THEN /\ pc' = "error"
            /\ stack' = <<>>
            /\ districts' = <<>>
            /\ UNCHANGED emitted
       ELSE /\ emitted' = Append(emitted, Progress(partitions_done', num_districts))
            /\ districts' = Append(districts, Head(stack).area)
            /\ stack' = Tail(stack)
            /\ UNCHANGED pc
    /\ UNCHANGED objectVars
    /\ UNCHANGED <<appVars, callVars, utilVars, workerVars>>

\* Mutant: a region without a valid split is returned as no district.
Fallback_ReturnsNothing ==
    /\ pc = "running" /\ stack # <<>>
    /\ ~IsLeaf(Head(stack).n)
    /\ SplitFailed(BestSplit(Head(stack).area, Head(stack).n))
    /\ stack' = Tail(stack)
    /\ UNCHANGED <<pc, partitions_done, districts, emitted>>
    /\ UNCHANGED objectVars
    /\ UNCHANGED <<appVars, callVars, utilVars, workerVars>>

\* Mutant: the fallback counts the region as a leaf.
Fallback_Counted ==
    /\ pc = "running" /\ stack # <<>>
    /\ ~IsLeaf(Head(stack).n)
    /\ SplitFailed(BestSplit(Head(stack).area, Head(stack).n))
    /\ districts' = Append(districts, Head(stack).area)
    /\ stack' = Tail(stack)
    /\ partitions_done' = partitions_done + 1
    /\ UNCHANGED <<pc, emitted>>
    /\ UNCHANGED objectVars
    /\ UNCHANGED <<appVars, callVars, utilVars, workerVars>>

\* No valid split: the region is returned as a single district.
Fallback ==
    /\ pc = "running" /\ stack # <<>>
    /\ ~IsLeaf(Head(stack).n)
    /\ SplitFailed(BestSplit(Head(stack).area, Head(stack).n))
    /\ districts' = Append(districts, Head(stack).area)
    /\ stack' = Tail(stack)
    /\ UNCHANGED <<pc, partitions_done, emitted>>
    /\ UNCHANGED objectVars
    /\ UNCHANGED <<appVars, callVars, utilVars, workerVars>>

\* The best split is committed: part1 is partitioned first, then part2.
CommitSplit ==
    /\ pc = "running" /\ stack # <<>>
    /\ ~IsLeaf(Head(stack).n)
    /\ LET top == Head(stack)
           best == BestSplit(top.area, top.n)
       IN  /\ ~SplitFailed(best)
           /\ stack' = <<Frame(best.part1, SeatsFirst(top.n)),
                         Frame(best.part2, SeatsSecond(top.n))>> \o Tail(stack)
    /\ UNCHANGED <<pc, partitions_done, districts, emitted>>
    /\ UNCHANGED objectVars
    /\ UNCHANGED <<appVars, callVars, utilVars, workerVars>>

\* The outermost call returns the list of districts.
Return ==
    /\ pc = "running" /\ stack = <<>>
    /\ pc' = "done"
    /\ UNCHANGED <<partitions_done, stack, districts, emitted>>
    /\ UNCHANGED objectVars
    /\ UNCHANGED <<appVars, callVars, utilVars, workerVars>>

Next ==
    \/ divide_and_conquer
    \/ gerrymander
    \/ Leaf
    \/ Fallback
    \/ CommitSplit
    \/ Return

Spec == Init /\ [][Next]_vars

(***************************************************************************)
(* calculate_apportionment.  The mapping state_populations is a sequence:  *)
(* position i is the i-th state of the dict's enumeration order.  The      *)
(* callers pass a non-empty mapping (src/src/cli.py:331, src/main.py:189). *)
(* Priorities pop / sqrt(n (n + 1)) are compared by their squares.         *)
(***************************************************************************)
PopulationMaps ==
    UNION { [1..k -> StatePops] : k \in 1..MaxStates }

\* priorities[a] > priorities[b], with n the current seats of each.
PriorityGreater(pops, cur, a, b) ==
    pops[a] * pops[a] * (cur[b] * (cur[b] + 1))
        > pops[b] * pops[b] * (cur[a] * (cur[a] + 1))

\* Mutant: of the states with the maximum priority, the last one.
NextSeatState_LastMax(pops, cur) ==
    CHOOSE a \in 1..Len(pops) :
        /\ \A b \in 1..Len(pops) : ~PriorityGreater(pops, cur, b, a)
        /\ \A b \in (a + 1)..Len(pops) : PriorityGreater(pops, cur, a, b)

\* max(priorities, key=priorities.get): the first state, in enumeration
\* order, that no state has a greater priority than.
NextSeatState(pops, cur) ==
    CHOOSE a \in 1..Len(pops) :
        /\ \A b \in 1..Len(pops) : ~PriorityGreater(pops, cur, b, a)
        /\ \A b \in 1..(a - 1) : PriorityGreater(pops, cur, a, b)

NoAlgorithm ==
    /\ state_data = <<>>
    /\ num_districts = 1
    /\ population_equality_weight = 1
    /\ compactness_weight = 1
    /\ partisan_weight = 0
    /\ vra_compliance = FALSE
    /\ communities_of_interest = {}
    /\ coi_weight = 1
    /\ use_gpu = FALSE
    /\ partitions_done = 0
    /\ pc = "idle"
    /\ stack = <<>>
    /\ districts = <<>>
    /\ emitted = <<>>
    /\ algorithm = "none"
    /\ given_data = <<>>
    /\ callers_data = <<>>

InitApportionment ==
    /\ NoAlgorithm
    /\ NoUtilities
    /\ NoWorkers
    /\ state_populations \in PopulationMaps
    /\ house_size \in 0..MaxHouse
    /\ seats = <<>>
    /\ remaining_seats = 0
    /\ app_pc = "called"

\* Mutant: a house one seat short of the number of states is accepted.
HouseTooSmall_OffByOne(house, num_states) == house + 1 < num_states
\* if house_size < num_states
HouseTooSmall(house, num_states) == house < num_states

\* Mutant: the seats given out initially are not deducted.
RemainingSeats_NotDeducted(house, num_states) == house
\* Mutant: two seats are given out for each seat above the initial ones.
RemainingSeats_Doubled(house, num_states) == 2 * (house - num_states)
\* remaining_seats = house_size - num_states
RemainingSeats(house, num_states) == house - num_states

\* if house_size < num_states: raise ValueError(...)
RaiseInvalid ==
    /\ app_pc = "called"
    /\ HouseTooSmall(house_size, Len(state_populations))
    /\ app_pc' = "raised"
    /\ UNCHANGED <<state_populations, house_size, seats, remaining_seats>>
    /\ UNCHANGED <<algoVars, callVars, utilVars, workerVars>>

\* Initial allocation: each state gets one seat.
InitialAllocation ==
    /\ app_pc = "called"
    /\ ~HouseTooSmall(house_size, Len(state_populations))
    /\ seats' = [i \in 1..Len(state_populations) |-> 1]
    /\ remaining_seats' = RemainingSeats(house_size, Len(state_populations))
    /\ app_pc' = "loop"
    /\ UNCHANGED <<state_populations, house_size>>
    /\ UNCHANGED <<algoVars, callVars, utilVars, workerVars>>

\* One iteration of `for _ in range(remaining_seats)`.
AwardSeat ==
    /\ app_pc = "loop"
    /\ remaining_seats > 0
    /\ LET next_seat_state == NextSeatState(state_populations, seats)
       IN  seats' = [seats EXCEPT ![next_seat_state] = @ + 1]
    /\ remaining_seats' = remaining_seats - 1
    /\ UNCHANGED <<state_populations, house_size, app_pc>>
    /\ UNCHANGED <<algoVars, callVars, utilVars, workerVars>>

\* return seats, once range(remaining_seats) is exhausted
ReturnSeats ==
    /\ app_pc = "loop"
    /\ remaining_seats <= 0
    /\ app_pc' = "returned"
    /\ UNCHANGED <<state_populations, house_size, seats, remaining_seats>>
    /\ UNCHANGED <<algoVars, callVars, utilVars, workerVars>>

NextApportionment ==
    \/ RaiseInvalid
    \/ InitialAllocation
    \/ AwardSeat
    \/ ReturnSeats

SpecApportionment == InitApportionment /\ [][NextApportionment]_vars

\* The loop `for _ in range(remaining)` run to its end from the seats cur.
RECURSIVE AllocateRemaining(_, _, _)
AllocateRemaining(pops, cur, remaining) ==
    IF remaining <= 0
    THEN cur
    ELSE AllocateRemaining(pops,
                           [cur EXCEPT ![NextSeatState(pops, cur)] = @ + 1],
                           remaining - 1)

\* The value calculate_apportionment returns for a house it accepts.
calculate_apportionment(pops, house) ==
    AllocateRemaining(pops, [i \in 1..Len(pops) |-> 1],
                      RemainingSeats(house, Len(pops)))

(***************************************************************************)
(* The recursion over seat counts alone.  The leaf counter and the         *)
(* progress values depend on the seat counts only, not on the units: here  *)
(* the table is left empty and whether _find_best_split_* finds a split of *)
(* a region is left open, so that a run may reach as many leaves as seats  *)
(* were requested, up to MaxRequested.                                     *)
(***************************************************************************)
InitProgress ==
    /\ state_data = <<>>
    /\ num_districts \in 1..MaxRequested
    /\ population_equality_weight = 1
    /\ compactness_weight = 1
    /\ partisan_weight = 0
    /\ vra_compliance = FALSE
    /\ communities_of_interest = {}
    /\ coi_weight = 1
    /\ use_gpu = FALSE
    /\ partitions_done = 0
    /\ pc = "idle"
    /\ stack = <<>>
    /\ districts = <<>>
    /\ emitted = <<>>
    /\ algorithm = "none"
    /\ given_data = state_data
    /\ callers_data = given_data
    /\ NoApportionment
    /\ NoUtilities
    /\ NoWorkers

\* best_split is a split: the two recursive calls, part1 first.
AnySplit ==
    /\ pc = "running" /\ stack # <<>>
    /\ ~IsLeaf(Head(stack).n)
    /\ stack' = <<Frame(Head(stack).area, SeatsFirst(Head(stack).n)),
                  Frame(Head(stack).area, SeatsSecond(Head(stack).n))>> \o Tail(stack)
    /\ UNCHANGED <<pc, partitions_done, districts, emitted>>
    /\ UNCHANGED objectVars
    /\ UNCHANGED <<appVars, callVars, utilVars, workerVars>>

\* best_split is None or has an empty part: return [area_gdf].
AnyFallback ==
    /\ pc = "running" /\ stack # <<>>
    /\ ~IsLeaf(Head(stack).n)
    /\ districts' = Append(districts, Head(stack).area)
    /\ stack' = Tail(stack)
    /\ UNCHANGED <<pc, partitions_done, emitted>>
    /\ UNCHANGED objectVars
    /\ UNCHANGED <<appVars, callVars, utilVars, workerVars>>

NextProgress ==
    \/ divide_and_conquer
    \/ Leaf
    \/ AnySplit
    \/ AnyFallback
    \/ Return

SpecProgress == InitProgress /\ [][NextProgress]_vars

(***************************************************************************)
(* The scoring calls of one search.  _find_best_split_cpu hands one        *)
(* _process_angle task per angle to dask, which may evaluate them in any   *)
(* order and more than once; scored logs the (score, split) results in the *)
(* order the calls are made.  The region is the whole table.               *)
(***************************************************************************)
InitScoring ==
    /\ InitAlgorithm
    /\ num_districts >= 2
    /\ ~use_gpu
    /\ NoApportionment
    /\ NoUtilities
    /\ NoWorkers

\* Mutant: the score drifts with the number of calls made before.
ScoreCandidate_Drifts ==
    /\ pc = "idle" /\ Len(scored) < MaxScored
    /\ ColSum(state_data, DOMAIN state_data, "P1_001N") # 0
    /\ \E k \in 1..NumAngles :
          LET r == _process_angle(state_data, Cfg, k, DOMAIN state_data,
                       ColSum(state_data, DOMAIN state_data, "P1_001N")
                           * SeatsFirst(num_districts),
                       num_districts)
          IN  scored' = Append(scored, [r EXCEPT !.score = @ + Len(scored)])
    /\ UNCHANGED <<algoVars, appVars, callVars, gdf, con_pc, con_result, workerVars>>

\* One call _process_angle(angle, area_gdf_proj, centroid, target_pop1, ...)
\* of the search on the whole table.
ScoreCandidate ==
    /\ pc = "idle" /\ Len(scored) < MaxScored
    /\ ColSum(state_data, DOMAIN state_data, "P1_001N") # 0
    /\ \E k \in 1..NumAngles :
          scored' = Append(scored,
              _process_angle(state_data, Cfg, k, DOMAIN state_data,
                  ColSum(state_data, DOMAIN state_data, "P1_001N")
                      * SeatsFirst(num_districts),
                  num_districts))
    /\ UNCHANGED <<algoVars, appVars, callVars, gdf, con_pc, con_result, workerVars>>

NextScoring == ScoreCandidate

SpecScoring == InitScoring /\ [][NextScoring]_vars

(***************************************************************************)
(* is_contiguous (src/src/core/utils.py).  Its argument is a region of     *)
(* unit squares in three rows.  The rows of the frame are in the order of  *)
(* _demo_dataset: by i, then by j.                                         *)
(***************************************************************************)
GridCells == (0..MaxColumn) \X (0..2)

\* sindex.query(geom, predicate="touches"): the boundaries of two geometries
\* meet and their interiors do not.  Two unit squares of the grid touch when
\* they are different and share an edge or a corner.
Touches(u, v) ==
    /\ u # v
    /\ Abs(u[1] - v[1]) <= 1
    /\ Abs(u[2] - v[2]) <= 1

\* adj: every hit j of the query for i is added to adj[i], and i to adj[j].
Adjacency(region) ==
    [u \in region |-> {v \in region : Touches(u, v) \/ Touches(v, u)}]

\* Row 0 after reset_index(drop=True).
FirstUnit(region) ==
    CHOOSE u \in region :
        \A v \in region : u[1] < v[1] \/ (u[1] = v[1] /\ u[2] <= v[2])

\* The elements of a set in the order a loop over it takes them.
RECURSIVE SeqOf(_)
SeqOf(S) ==
    IF S = {} THEN <<>>
    ELSE LET u == CHOOSE v \in S : TRUE IN <<u>> \o SeqOf(S \ {u})

\* Mutant: the neighbours are marked as seen but never pushed.
RECURSIVE Traverse_NoPush(_, _, _)
Traverse_NoPush(adj, seen, st) ==
    IF st = <<>> THEN seen
    ELSE Traverse_NoPush(adj, seen \cup adj[st[Len(st)]], SubSeq(st, 1, Len(st) - 1))

\* while stack: cur = stack.pop(); every neighbour not yet seen is added to
\* seen and pushed.  The value is seen when the stack is empty.
RECURSIVE Traverse(_, _, _)
Traverse(adj, seen, st) ==
    IF st = <<>> THEN seen
    ELSE LET cur == st[Len(st)]
             new == adj[cur] \ seen
         IN  Traverse(adj, seen \cup new, SubSeq(st, 1, Len(st) - 1) \o SeqOf(new))

is_contiguous(region) ==
    IF region = {} THEN TRUE
    ELSE Cardinality(Traverse(Adjacency(region), {FirstUnit(region)},
                              <<FirstUnit(region)>>))
            = Cardinality(region)

InitContiguity ==
    /\ NoAlgorithm
    /\ NoApportionment
    /\ scored = <<>>
    /\ gdf \in SUBSET GridCells
    /\ con_pc = "called"
    /\ con_result = FALSE
    /\ NoWorkers

\* One call is_contiguous(gdf), from its entry to its return.
CallIsContiguous ==
    /\ con_pc = "called"
    /\ con_result' = is_contiguous(gdf)
    /\ con_pc' = "returned"
    /\ UNCHANGED <<algoVars, appVars, callVars, scored, gdf, workerVars>>

NextContiguity == CallIsContiguous

SpecContiguity == InitContiguity /\ [][NextContiguity]_vars

(***************************************************************************)
(* The constructor.  __init__ keeps a reference to the caller's table      *)
(* (self.state_data = state_data) and assigns its numeric columns in       *)
(* place, so the caller's table and the object's are one table:            *)
(* callers_data holds it with its cells as loaded, state_data holds its    *)
(* numbers once the constructor has returned (before the call, pc = "new", *)
(* and after a call that raised, pc = "raised", there is no object and     *)
(* state_data is empty).  given_data keeps the table as it was before the  *)
(* call.  Of the seven numeric columns the tables here carry two.          *)
(***************************************************************************)
\* pd.to_numeric(column, errors='coerce'), cell by cell.
to_numeric(cell) ==
    CASE cell.form = "number" -> cell
      [] cell.form = "numeral" -> Number(cell.value)
      [] cell.form = "word" -> Missing
      [] cell.form = "missing" -> Missing

\* column.astype('float64'), cell by cell; a word makes the call raise.
astype_float64(cell) ==
    CASE cell.form = "number" -> cell
      [] cell.form = "numeral" -> Number(cell.value)
      [] cell.form = "missing" -> Missing

\* Mutant: a missing value is left missing.
fillna_Kept(cell, value) == cell
\* column.fillna(value), cell by cell.
fillna(cell, value) == IF cell.form = "missing" THEN Number(value) ELSE cell

\* self.state_data[col] = ... : the column is replaced by its coerced copy.
CoerceColumn(loaded, col, gpu) ==
    [u \in DOMAIN loaded |->
        [loaded[u] EXCEPT ![col] =
            IF gpu THEN fillna(astype_float64(@), 0)
                   ELSE fillna(to_numeric(@), 0)]]

\* astype('float64') raises ValueError on a column that holds a word.
ColumnRaises(loaded, col, gpu) ==
    gpu /\ \E u \in DOMAIN loaded : loaded[u][col].form = "word"

InitConstruct ==
    /\ given_data \in LoadedTables
    /\ callers_data = given_data
    /\ state_data = <<>>
    /\ num_districts \in 1..2
    /\ population_equality_weight = 1
    /\ compactness_weight = 1
    /\ partisan_weight = 0
    /\ vra_compliance = FALSE
    /\ communities_of_interest = {}
    /\ coi_weight = 1
    /\ use_gpu \in BOOLEAN
    /\ partitions_done = 0
    /\ pc = "new"
    /\ stack = <<>>
    /\ districts = <<>>
    /\ emitted = <<>>
    /\ algorithm = "none"
    /\ NoApportionment
    /\ NoUtilities
    /\ NoWorkers

\* RedistrictingAlgorithm.__init__: the numeric columns are coerced in
\* order; a column that raises leaves the columns before it coerced.
__init__ ==
    /\ pc = "new"
    /\ IF ColumnRaises(callers_data, "P1_001N", use_gpu)
       THEN /\ pc' = "raised"
            /\ UNCHANGED <<callers_data, state_data>>
       ELSE LET first == CoerceColumn(callers_data, "P1_001N", use_gpu)
            IN  IF ColumnRaises(first, "P1_003N", use_gpu)
                THEN /\ pc' = "raised"
                     /\ callers_data' = first
                     /\ UNCHANGED state_data
                ELSE /\ pc' = "idle"
                     /\ callers_data' = CoerceColumn(first, "P1_003N", use_gpu)
                     /\ state_data' = AsNumbers(callers_data')
    /\ UNCHANGED <<num_districts, population_equality_weight,
                   compactness_weight, partisan_weight, vra_compliance,
                   communities_of_interest, coi_weight, use_gpu>>
    /\ UNCHANGED <<partitions_done, stack, districts, emitted>>
    /\ UNCHANGED <<appVars, algorithm, given_data, utilVars, workerVars>>

NextConstruct == __init__ \/ Next

SpecConstruct == InitConstruct /\ [][NextConstruct]_vars

(***************************************************************************)
(* DataFetcherWorker._attach_partisan_scores.  A provider key stands for   *)
(* what its provider does when its turn comes:                             *)
(*   "unregistered"  PROVIDER_REGISTRY.get(key) is None;                   *)
(*   "nothing"       fetch_scores_for_provider returns None;               *)
(*   "empty"         it returns an empty table;                            *)
(*   "scores"        it returns a table with a county and a partisan_score *)
(*                   column;                                               *)
(*   "raises"        the fetcher raises (a KeyError on a downloaded file   *)
(*                   without the expected columns, an OSError on the cache *)
(*                   directory: the fetchers catch RequestException and    *)
(*                   parse errors only).                                   *)
(* The try block encloses the whole loop.                                  *)
(***************************************************************************)
ProviderKinds ==
    {"unregistered", "nothing", "empty", "scores", "raises"}

ProviderLists ==
    UNION { [1..n -> ProviderKinds] : n \in 0..MaxProviders }

InitAttach ==
    /\ NoAlgorithm
    /\ NoApportionment
    /\ NoUtilities
    /\ provider_keys \in ProviderLists
    /\ provider_index = 1
    /\ contacted = <<>>
    /\ partisan_score = "unset"
    /\ active_provider_meta \in 0..1     \* None, or left by an earlier call
    /\ attach_pc = "idle"
    /\ NoShapefiles
    /\ NoWorkerRun
    /\ NoRetries
    /\ NoDataset

coreVars == <<algoVars, appVars, callVars, utilVars>>
\* What a call of _attach_partisan_scores leaves alone.
attachFrame == <<coreVars, shapeVars, runVars, retryVars, datasetVars>>

\* The provider whose turn it is.
CurrentKind == provider_keys[provider_index]
Trying == attach_pc = "trying" /\ provider_index <= Len(provider_keys)

\* self.active_provider_meta = None; the loop starts at the first key.
_attach_partisan_scores ==
    /\ attach_pc = "idle"
    /\ attach_pc' = "trying"
    /\ active_provider_meta' = 0
    /\ provider_index' = 1
    /\ contacted' = <<>>
    /\ UNCHANGED <<provider_keys, partisan_score>>
    /\ UNCHANGED attachFrame

\* if not provider_meta: continue
SkipUnregistered ==
    /\ Trying /\ CurrentKind = "unregistered"
    /\ provider_index' = provider_index + 1
    /\ UNCHANGED <<provider_keys, contacted, partisan_score,
                   active_provider_meta, attach_pc>>
    /\ UNCHANGED attachFrame

\* if county_scores is None or county_scores.empty: continue
FetchNothing ==
    /\ Trying /\ CurrentKind \in {"nothing", "empty"}
    /\ contacted' = Append(contacted, provider_index)
    /\ provider_index' = provider_index + 1
    /\ UNCHANGED <<provider_keys, partisan_score, active_provider_meta, attach_pc>>
    /\ UNCHANGED attachFrame

\* Mutant: the provider is recorded as active, but the neutral score is set.
FetchScores_Neutral ==
    /\ Trying /\ CurrentKind = "scores"
    /\ contacted' = Append(contacted, provider_index)
    /\ partisan_score' = "neutral"
    /\ active_provider_meta' = provider_index
    /\ attach_pc' = "returned"
    /\ UNCHANGED <<provider_keys, provider_index>>
    /\ UNCHANGED attachFrame

\* The table is merged, gaps are filled with its mean, the provider is
\* recorded and the table returned.
FetchScores ==
    /\ Trying /\ CurrentKind = "scores"
    /\ contacted' = Append(contacted, provider_index)
    /\ partisan_score' = "provider"
    /\ active_provider_meta' = provider_index
    /\ attach_pc' = "returned"
    /\ UNCHANGED <<provider_keys, provider_index>>
    /\ UNCHANGED attachFrame

\* The fetcher raises: except Exception sets 0.5 and returns.
FetchRaises ==
    /\ Trying /\ CurrentKind = "raises"
    /\ contacted' = Append(contacted, provider_index)
    /\ partisan_score' = "neutral"
    /\ attach_pc' = "returned"
    /\ UNCHANGED <<provider_keys, provider_index, active_provider_meta>>
    /\ UNCHANGED attachFrame

\* The loop ends without a return: df['partisan_score'] = 0.5.
NoProviderLeft ==
    /\ attach_pc = "trying" /\ provider_index > Len(provider_keys)
    /\ partisan_score' = "neutral"
    /\ attach_pc' = "returned"
    /\ UNCHANGED <<provider_keys, provider_index, contacted, active_provider_meta>>
    /\ UNCHANGED attachFrame

NextAttach ==
    \/ _attach_partisan_scores
    \/ SkipUnregistered
    \/ FetchNothing
    \/ FetchScores
    \/ FetchRaises
    \/ NoProviderLeft

SpecAttach == InitAttach /\ [][NextAttach]_vars

(***************************************************************************)
(* DataFetcherWorker._get_shapefiles.  The file system is the cache        *)
(* directory shapefile_dir (it exists or not) and the .shp files in it:    *)
(* the one shapefile_path names ("expected") and one of another name       *)
(* ("other").  head_response is what requests.head answers:                *)
(*   "request_error"  it raises RequestException;                          *)
(*   "no_header"      the answer carries no Last-Modified header;          *)
(*   "bad_header"     the header does not parse (strptime raises           *)
(*                    ValueError, which no except clause catches);         *)
(*   "newer"          the remote copy is newer than the directory;         *)
(*   "not_newer"      it is not.                                           *)
(* download_response is what the download and the extraction give:         *)
(*   "fails"          the request or the zip file raises;                  *)
(*   "expected"       the archive holds the expected .shp;                 *)
(*   "other"          it holds a .shp of another name;                     *)
(*   "no_shp"         it holds no .shp.                                    *)
(* shapefile_path is "pending" during the call, then the file returned,    *)
(* "None", or "raised".                                                    *)
(***************************************************************************)
ShpNames == {"expected", "other"}
HeadResponses == {"request_error", "no_header", "bad_header", "newer", "not_newer"}
DownloadResponses == {"fails", "expected", "other", "no_shp"}

InitShapefiles ==
    /\ NoAlgorithm
    /\ NoApportionment
    /\ NoUtilities
    /\ NoAttach
    /\ shapefile_dir \in BOOLEAN
    /\ shapefiles \in SUBSET ShpNames
    /\ ~shapefile_dir => shapefiles = {}
    /\ head_response \in HeadResponses
    /\ download_response \in DownloadResponses
    /\ shape_pc = "called"
    /\ shapefile_path = "pending"
    /\ NoWorkerRun
    /\ NoRetries
    /\ NoDataset

\* What a call of _get_shapefiles leaves alone.
shapeFrame == <<coreVars, attachVars, runVars, retryVars, datasetVars>>

\* if os.path.exists(shapefile_dir) is false: straight to the download.
NoCacheDirectory ==
    /\ shape_pc = "called" /\ ~shapefile_dir
    /\ shape_pc' = "download"
    /\ UNCHANGED <<shapefile_dir, shapefiles, head_response, download_response,
                   shapefile_path>>
    /\ UNCHANGED shapeFrame

\* except requests.RequestException: the cached file if it exists, else
\* fall through to the download.
HeadFails ==
    /\ shape_pc = "called" /\ shapefile_dir
    /\ head_response = "request_error"
    /\ IF "expected" \in shapefiles
       THEN shape_pc' = "returned" /\ shapefile_path' = "expected"
       ELSE shape_pc' = "download" /\ UNCHANGED shapefile_path
    /\ UNCHANGED <<shapefile_dir, shapefiles, head_response, download_response>>
    /\ UNCHANGED shapeFrame

\* datetime.strptime raises ValueError: the call raises.
HeadUnparsed ==
    /\ shape_pc = "called" /\ shapefile_dir
    /\ head_response = "bad_header"
    /\ shape_pc' = "returned" /\ shapefile_path' = "raised"
    /\ UNCHANGED <<shapefile_dir, shapefiles, head_response, download_response>>
    /\ UNCHANGED shapeFrame

\* The HEAD request is answered: a newer remote copy removes the directory
\* (shutil.rmtree); in every case shapefile_path is returned.
HeadAnswers ==
    /\ shape_pc = "called" /\ shapefile_dir
    /\ head_response \in {"no_header", "newer", "not_newer"}
    /\ IF head_response = "newer"
       THEN shapefile_dir' = FALSE /\ shapefiles' = {}
       ELSE UNCHANGED <<shapefile_dir, shapefiles>>
    /\ shape_pc' = "returned" /\ shapefile_path' = "expected"
    /\ UNCHANGED <<head_response, download_response>>
    /\ UNCHANGED shapeFrame

\* except Exception: return None.
DownloadFails ==
    /\ shape_pc = "download"
    /\ download_response = "fails"
    /\ shape_pc' = "returned" /\ shapefile_path' = "None"
    /\ UNCHANGED <<shapefile_dir, shapefiles, head_response, download_response>>
    /\ UNCHANGED shapeFrame

\* The archive is extracted into shapefile_dir; the expected file is
\* returned if it exists, else some .shp of the directory, else None.
DownloadExtracts ==
    /\ shape_pc = "download"
    /\ download_response # "fails"
    /\ shapefile_dir' = TRUE
    /\ shapefiles' = shapefiles \cup (ShpNames \cap {download_response})
    /\ shape_pc' = "returned"
    /\ IF "expected" \in shapefiles'
       THEN shapefile_path' = "expected"
       ELSE IF shapefiles' # {}
            THEN shapefile_path' \in shapefiles'
            ELSE shapefile_path' = "None"
    /\ UNCHANGED <<head_response, download_response>>
    /\ UNCHANGED shapeFrame

NextShapefiles ==
    \/ NoCacheDirectory
    \/ HeadFails
    \/ HeadUnparsed
    \/ HeadAnswers
    \/ DownloadFails
    \/ DownloadExtracts

SpecShapefiles == InitShapefiles /\ [][NextShapefiles]_vars

(***************************************************************************)
(* RedistrictingWorker.run (src/src/workers/redistricting_worker.py).      *)
(* coi_file is what self.communities_of_interest names:                    *)
(*   "none"        nothing (None or an empty string);                      *)
(*   "readable"    a CSV file with a GEOID column;                         *)
(*   "no_column"   a CSV file without one;                                 *)
(*   "unreadable"  a file pd.read_csv raises on.                           *)
(* run_outcome is what the partitioner does with the worker's table:       *)
(*   "returns"             the entry point returns a district list;        *)
(*   "raises"              the entry point raises;                         *)
(*   "constructor_raises"  RedistrictingAlgorithm(...) raises.             *)
(* The _emit_* helpers call a callback only when it is set and swallow     *)
(* what it raises.                                                         *)
(***************************************************************************)
CoiFiles == {"none", "readable", "no_column", "unreadable"}
AlgorithmNames == {"Divide and Conquer", "Gerrymander"}
RunOutcomes == {"returns", "raises", "constructor_raises"}

InitWorkerRun ==
    /\ NoAlgorithm
    /\ NoApportionment
    /\ NoUtilities
    /\ NoAttach
    /\ NoShapefiles
    /\ coi_file \in CoiFiles
    /\ algorithm_name \in AlgorithmNames
    /\ finished_callback \in BOOLEAN
    /\ error_callback \in BOOLEAN
    /\ run_outcome \in RunOutcomes
    /\ coi_list = "None"
    /\ algorithm_bound = FALSE
    /\ finished_calls = 0
    /\ error_calls = 0
    /\ run_pc = "called"
    /\ NoRetries
    /\ NoDataset

\* What a call of run leaves alone.
runFrame == <<coreVars, attachVars, shapeVars, retryVars, datasetVars>>
runInputs == <<coi_file, algorithm_name, finished_callback, error_callback,
               run_outcome>>

\* self._emit_error(str(e)), from the outer except clause.
EmitError ==
    /\ error_calls' = error_calls + (IF error_callback THEN 1 ELSE 0)
    /\ run_pc' = "returned"
    /\ UNCHANGED finished_calls

\* if self.communities_of_interest is false: the block that reads the file
\* and constructs the partitioner is skipped, algorithm stays unbound.
SkipCoiBlock ==
    /\ run_pc = "called" /\ coi_file = "none"
    /\ run_pc' = "connect"
    /\ UNCHANGED <<coi_list, algorithm_bound, finished_calls, error_calls>>
    /\ UNCHANGED runInputs
    /\ UNCHANGED runFrame

\* The file is read (a failure leaves coi_list None) and the partitioner
\* is constructed.
ReadCoiAndConstruct ==
    /\ run_pc = "called" /\ coi_file # "none"
    /\ coi_list' = IF coi_file = "readable" THEN "list" ELSE "None"
    /\ IF run_outcome = "constructor_raises"
       THEN EmitError /\ UNCHANGED algorithm_bound
       ELSE /\ algorithm_bound' = TRUE
            /\ run_pc' = "connect"
            /\ UNCHANGED <<finished_calls, error_calls>>
    /\ UNCHANGED runInputs
    /\ UNCHANGED runFrame

\* algorithm.progress_update.connect(...): UnboundLocalError when the
\* partitioner was not constructed.
ConnectProgress ==
    /\ run_pc = "connect"
    /\ IF algorithm_bound
       THEN run_pc' = "run" /\ UNCHANGED <<finished_calls, error_calls>>
       ELSE EmitError
    /\ UNCHANGED <<coi_list, algorithm_bound>>
    /\ UNCHANGED runInputs
    /\ UNCHANGED runFrame

\* The entry point is called; its list goes to _emit_finished, what it
\* raises to _emit_error.
RunAlgorithm ==
    /\ run_pc = "run"
    /\ IF run_outcome = "returns"
       THEN /\ finished_calls' = finished_calls + (IF finished_callback THEN 1 ELSE 0)
            /\ run_pc' = "returned"
            /\ UNCHANGED error_calls
       ELSE EmitError
    /\ UNCHANGED <<coi_list, algorithm_bound>>
    /\ UNCHANGED runInputs
    /\ UNCHANGED runFrame

NextWorkerRun ==
    \/ SkipCoiBlock
    \/ ReadCoiAndConstruct
    \/ ConnectProgress
    \/ RunAlgorithm

SpecWorkerRun == InitWorkerRun /\ [][NextWorkerRun]_vars

(***************************************************************************)
(* DataFetcherWorker._with_retries(func, retries, base_delay).  Delays are *)
(* in tenths of a second; the jitter random.random() * 0.2 lies in         *)
(* [0, 0.2) and is drawn here from 0 and 1 tenth.  func_outcomes[k] is     *)
(* what the k-th call of func would do: "ok" (it returns) or "raise".      *)
(***************************************************************************)
Jitter == {0, 1}
BaseDelays == {5, 10}

OutcomeLists == [1..MaxRetries -> {"ok", "raise"}]

InitRetries ==
    /\ NoAlgorithm
    /\ NoApportionment
    /\ NoUtilities
    /\ NoAttach
    /\ NoShapefiles
    /\ NoWorkerRun
    /\ NoDataset
    /\ retries \in 0..MaxRetries
    /\ base_delay \in BaseDelays
    /\ func_outcomes \in OutcomeLists
    /\ attempt = 1
    /\ retry_calls = 0
    /\ retry_sleeps = <<>>
    /\ retry_result = Pending
    /\ retry_pc = "called"

\* What a call of _with_retries leaves alone.
retryFrame == <<coreVars, attachVars, shapeVars, runVars, datasetVars>>
retryInputs == <<retries, base_delay, func_outcomes>>

\* Mutant: the exponent is the attempt number.
Backoff_Doubled(base, att) == base * 2 ^ att
\* base_delay * (2 ** (attempt - 1))
Backoff(base, att) == base * 2 ^ (att - 1)

\* range(1, retries + 1) is empty: the loop body never runs, None returned.
NoAttempt ==
    /\ retry_pc = "called" /\ attempt > retries
    /\ retry_result' = ReturnedNone
    /\ retry_pc' = "returned"
    /\ UNCHANGED <<attempt, retry_calls, retry_sleeps>>
    /\ UNCHANGED retryInputs
    /\ UNCHANGED retryFrame

\* return func()
CallReturns ==
    /\ retry_pc = "called" /\ attempt <= retries
    /\ func_outcomes[attempt] = "ok"
    /\ retry_calls' = retry_calls + 1
    /\ retry_result' = Returned(attempt)
    /\ retry_pc' = "returned"
    /\ UNCHANGED <<attempt, retry_sleeps>>
    /\ UNCHANGED retryInputs
    /\ UNCHANGED retryFrame

\* func raises before the last attempt: sleep, then the next attempt.
CallRaisesAndSleeps ==
    /\ retry_pc = "called" /\ attempt < retries
    /\ func_outcomes[attempt] = "raise"
    /\ retry_calls' = retry_calls + 1
    /\ \E j \in Jitter :
          retry_sleeps' = Append(retry_sleeps, Backoff(base_delay, attempt) + j)
    /\ attempt' = attempt + 1
    /\ UNCHANGED <<retry_result, retry_pc>>
    /\ UNCHANGED retryInputs
    /\ UNCHANGED retryFrame

\* func raises at the last attempt: if attempt == retries: raise
LastCallRaises ==
    /\ retry_pc = "called" /\ attempt = retries
    /\ func_outcomes[attempt] = "raise"
    /\ retry_calls' = retry_calls + 1
    /\ retry_result' = Raised(attempt)
    /\ retry_pc' = "returned"
    /\ UNCHANGED <<attempt, retry_sleeps>>
    /\ UNCHANGED retryInputs
    /\ UNCHANGED retryFrame

NextRetries ==
    \/ NoAttempt
    \/ CallReturns
    \/ CallRaisesAndSleeps
    \/ LastCallRaises

SpecRetries == InitRetries /\ [][NextRetries]_vars

(***************************************************************************)
(* CountyPresidentialReturnsProvider._ensure_dataset_file.  The dataset is *)
(* DatasetChunks chunks long; the file at cache_path is described by       *)
(* os.path.exists (cache_exists) and os.path.getsize in chunks             *)
(* (cache_size).  Each action is one whole call, told apart by what the    *)
(* download does.                                                          *)
(***************************************************************************)
InitDataset ==
    /\ NoAlgorithm
    /\ NoApportionment
    /\ NoUtilities
    /\ NoAttach
    /\ NoShapefiles
    /\ NoWorkerRun
    /\ NoRetries
    /\ cache_exists \in BOOLEAN
    /\ cache_size \in (IF cache_exists THEN {0, DatasetChunks} ELSE {0})
    /\ downloads = 0
    /\ dataset_returns = <<>>

\* What a call of _ensure_dataset_file leaves alone.
datasetFrame == <<coreVars, attachVars, shapeVars, runVars, retryVars>>

\* if os.path.exists(cache_path): if os.path.getsize(cache_path) > 0
CacheHit == cache_exists /\ cache_size > 0

CanCall == Len(dataset_returns) < MaxCalls

\* The cached file is returned without a download.
ReturnCached ==
    /\ CanCall /\ CacheHit
    /\ dataset_returns' = Append(dataset_returns, "cache_path")
    /\ UNCHANGED <<cache_exists, cache_size, downloads>>
    /\ UNCHANGED datasetFrame

\* An empty file is removed; requests.get or raise_for_status raises
\* before the file is opened.
DownloadRefused ==
    /\ CanCall /\ ~CacheHit
    /\ cache_exists' = FALSE
    /\ cache_size' = 0
    /\ downloads' = downloads + 1
    /\ dataset_returns' = Append(dataset_returns, "None")
    /\ UNCHANGED datasetFrame

\* open(cache_path, "wb") creates the file; iter_content raises after
\* `written` chunks, fewer than the dataset has.
DownloadCutShort ==
    /\ CanCall /\ ~CacheHit
    /\ \E written \in 0..(DatasetChunks - 1) :
          /\ cache_exists' = TRUE
          /\ cache_size' = written
    /\ downloads' = downloads + 1
    /\ dataset_returns' = Append(dataset_returns, "None")
    /\ UNCHANGED datasetFrame

\* Every chunk is written and cache_path is returned.
DownloadCompletes ==
    /\ CanCall /\ ~CacheHit
    /\ cache_exists' = TRUE
    /\ cache_size' = DatasetChunks
    /\ downloads' = downloads + 1
    /\ dataset_returns' = Append(dataset_returns, "cache_path")
    /\ UNCHANGED datasetFrame

NextDataset ==
    \/ ReturnCached
    \/ DownloadRefused
    \/ DownloadCutShort
    \/ DownloadCompletes

SpecDataset == InitDataset /\ [][NextDataset]_vars

(***************************************************************************)
(* Properties of the partitioner.                                          *)
(***************************************************************************)
AllUnits == DOMAIN state_data

\* The groups already returned, then the regions still on the call stack.
Pieces == districts \o [i \in 1..Len(stack) |-> stack[i].area]

PairwiseDisjoint(groups) ==
    \A i, j \in 1..Len(groups) : i # j => groups[i] \cap groups[j] = {}

UnionOf(groups) == UNION {groups[i] : i \in 1..Len(groups)}

PopulationOf(area) == ColSum(state_data, area, "P1_001N")

\* Some candidate angle leaves both sides of the region non-empty.
HasValidAngle(area) ==
    \E k \in 1..NumAngles : MaskTrue(area, k) # {} /\ MaskFalse(area, k) # {}

\* The region can be split: non-zero population and a valid angle.
Splittable(area) == PopulationOf(area) # 0 /\ HasValidAngle(area)

\* Every region the recursion reaches from (area, n) with 2 seats or more
\* can be split.
RECURSIVE SplittableEverywhere(_, _)
SplittableEverywhere(area, n) ==
    \/ n <= 1
    \/ /\ Splittable(area)
       /\ LET best == BestSplit(area, n)
          IN  /\ SplittableEverywhere(best.part1, n \div 2)
              /\ SplittableEverywhere(best.part2, n - n \div 2)

\* A step of the run in progress that commits a split: the region on top of
\* the stack is replaced by two.
IsSplitStep ==
    /\ pc = "running" /\ pc' = "running"
    /\ Len(stack') = Len(stack) + 1

\* C1: during and after a run with num_districts >= 1, the groups returned
\* so far and the regions still to be partitioned are pairwise disjoint and
\* their union is the input unit set; so the groups a finished run returns
\* hold every input unit exactly once.
C1_PartitionInvariant ==
    (pc \in {"running", "done"} /\ num_districts >= 1) =>
        /\ PairwiseDisjoint(Pieces)
        /\ UnionOf(Pieces) = AllUnits
        /\ (pc = "done" => Pieces = districts)

\* A finished GPU run that returned three districts.
C1_Witness ==
    /\ pc = "done" /\ use_gpu
    /\ num_districts = 3 /\ Len(districts) = 3

\* C2: when every region reached with 2 seats or more can be split, a
\* finished run returns exactly num_districts groups whose union is the
\* input unit set.
C2_Completeness ==
    (/\ pc = "done" /\ num_districts >= 1
     /\ SplittableEverywhere(AllUnits, num_districts)) =>
        /\ Len(districts) = num_districts
        /\ UnionOf(districts) = AllUnits

\* A finished run of three seats in which every split succeeded.
C2_Witness ==
    /\ pc = "done" /\ num_districts = 3
    /\ SplittableEverywhere(AllUnits, num_districts)
    /\ Len(districts) = 3

\* C3: the populations of the groups a finished run returns add up to the
\* total population of the input table, fallback or not.
C3_PopulationConserved ==
    pc = "done" =>
        SumSeq([i \in 1..Len(districts) |-> PopulationOf(districts[i])])
            = PopulationOf(AllUnits)

\* A finished run in which a region fell back (fewer leaves than groups)
\* and the population is not zero.
C3_Witness ==
    /\ pc = "done"
    /\ Len(districts) >= 2 /\ partitions_done < Len(districts)
    /\ PopulationOf(AllUnits) > 0

(***************************************************************************)
(* Properties of calculate_apportionment.                                  *)
(***************************************************************************)
NumStates == Len(state_populations)

C5_TooSmallHouseRaises ==
    /\ [](house_size < NumStates =>
            /\ app_pc \in {"called", "raised"}
            /\ seats = <<>>
            /\ (app_pc = "called" => ENABLED RaiseInvalid))
    /\ [][state_populations' = state_populations /\ house_size' = house_size]_vars

\* A call for three states and two seats has raised.
C5_Witness ==
    /\ app_pc = "raised"
    /\ NumStates = 3 /\ house_size = 2
    /\ seats = <<>>

\* The priority pop / sqrt(n (n + 1)) of state a is at least that of b.
PriorityAtLeast(a, b) ==
    state_populations[a] * state_populations[a] * (seats[b] * (seats[b] + 1))
        >= state_populations[b] * state_populations[b] * (seats[a] * (seats[a] + 1))

\* C6: every seat after the first |states| goes to a state whose priority is
\* maximal at that moment, the first such state in enumeration order; and
\* populations <<900, 100>> with house size 3 give 2 seats and 1 seat.
C6_HighestPriorityFirst ==
    /\ [][(app_pc = "loop" /\ seats' # seats) =>
            \E a \in DOMAIN seats :
                /\ seats' = [seats EXCEPT ![a] = seats[a] + 1]
                /\ \A b \in DOMAIN seats : PriorityAtLeast(a, b)
                /\ \A b \in 1..(a - 1) : ~PriorityAtLeast(b, a)]_vars
    /\ []((app_pc = "returned" /\ state_populations = <<900, 100>> /\ house_size = 3)
            => seats = <<2, 1>>)

\* The call for <<900, 100>> and three seats has returned <<2, 1>>.
C6_Witness ==
    /\ app_pc = "returned"
    /\ state_populations = <<900, 100>> /\ house_size = 3
    /\ seats = <<2, 1>>

(***************************************************************************)
(* Properties of the recursion.                                            *)
(***************************************************************************)
\* A step of the run in progress that takes the region on top of the stack
\* without counting it as a leaf: a split was attempted on it.
IsSplitAttempt ==
    /\ pc = "running" /\ stack # <<>>
    /\ stack' # stack
    /\ partitions_done' = partitions_done

\* C7: a split is attempted only on a region with s >= 2 seats, and a
\* committed split gives part1 floor(s / 2) seats and part2 the other
\* s - floor(s / 2): both get at least one seat and the two add up to s,
\* while the rest of the stack is untouched.
C7_SeatsConserved ==
    /\ [][IsSplitAttempt => Head(stack).n >= 2]_vars
    /\ [][IsSplitStep =>
            LET s == Head(stack).n
                s1 == stack'[1].n
                s2 == stack'[2].n
            IN  /\ s >= 2
                /\ s1 = s \div 2 /\ s2 = s - s1
                /\ s1 + s2 = s /\ s1 >= 1 /\ s2 >= 1
                /\ Tail(Tail(stack')) = Tail(stack)]_vars

\* A split of a region with three seats has just been committed.
C7_Witness ==
    /\ pc = "running" /\ Len(stack) = 2
    /\ stack[1].n = 1 /\ stack[2].n = 2
    /\ districts = <<>>

\* The work left: every pending region with n seats stands for at most
\* 2 n - 1 calls (n leaves and n - 1 splits), and the return is one step.
RECURSIVE CallsLeft(_)
CallsLeft(st) ==
    IF st = <<>> THEN 0
    ELSE (IF Head(st).n >= 1 THEN 2 * Head(st).n - 1 ELSE 1) + CallsLeft(Tail(st))

Rank == (IF pc = "running" THEN 1 ELSE 0) + CallsLeft(stack)

\* C8: the recursion terminates.  Every step of a run in progress lowers
\* Rank, which is never negative, so no run takes more than Rank steps; a
\* committed split of a region with s >= 2 seats passes fewer than s seats
\* to each child, and a region with s <= 1 only leaves the stack.
C8_Terminates ==
    /\ [][pc = "running" => (Rank' < Rank /\ Rank' >= 0)]_vars
    /\ [][IsSplitStep =>
            /\ Head(stack).n >= 2
            /\ stack'[1].n < Head(stack).n
            /\ stack'[2].n < Head(stack).n]_vars
    /\ [][(pc = "running" /\ stack # <<>> /\ Head(stack).n <= 1)
            => stack' = Tail(stack) \/ pc' = "error"]_vars

\* A run of four seats, two levels deep, has returned.
C8_Witness ==
    /\ pc = "done" /\ num_districts = 4
    /\ Len(districts) = 3 /\ partitions_done = 2

\* The region cannot be split: population 0, or no angle with two
\* non-empty sides.
Unsplittable(area) == PopulationOf(area) = 0 \/ ~HasValidAngle(area)

\* C9: a region with 2 seats or more that cannot be split is returned whole
\* as the next group: the run goes on without an error, nothing is pushed
\* for the region, no leaf is counted and no progress is emitted; and a
\* finished run in which a region fell back has fewer groups than seats.
C9_FallbackUndivided ==
    /\ [][(/\ pc = "running" /\ stack # <<>>
           /\ Head(stack).n >= 2
           /\ Unsplittable(Head(stack).area)) =>
            /\ districts' = Append(districts, Head(stack).area)
            /\ stack' = Tail(stack)
            /\ pc' = "running"
            /\ partitions_done' = partitions_done
            /\ emitted' = emitted]_vars
    /\ []((pc = "done" /\ num_districts >= 1 /\ partitions_done < Len(districts))
            => Len(districts) < num_districts)

\* A run on two units of population 0 and two seats or more has returned
\* the whole table as its only group.
C9_Witness ==
    /\ pc = "done" /\ num_districts >= 2
    /\ Cardinality(AllUnits) = 2 /\ PopulationOf(AllUnits) = 0
    /\ districts = <<AllUnits>>
    /\ partitions_done = 0 /\ emitted = <<>>

\* C10 (as claimed): a request for zero or fewer seats returns no district
\* and emits no progress value.
C10_NonPositiveSeatsRejected ==
    num_districts <= 0 => (districts = <<>> /\ emitted = <<>> /\ pc # "done")

(***************************************************************************)
(* Properties of the search for the best split.                            *)
(***************************************************************************)
\* The candidate of a region at the k-th angle has two non-empty sides.
ValidCandidate(area, k) == MaskTrue(area, k) # {} /\ MaskFalse(area, k) # {}

\* The score of that candidate when the region is to get n seats, with the
\* weights the object holds.
CandidateScore(area, n, k) ==
    _calculate_split_score_static(state_data, Cfg, area,
        MaskTrue(area, k), MaskFalse(area, k),
        PopulationOf(area) * SeatsFirst(n), n)

\* C11: a committed split is the candidate of some angle with two non-empty
\* sides whose score no valid candidate undercuts, and every valid candidate
\* of a smaller angle scores strictly more: of the candidates sharing the
\* minimum, the one of the smallest angle.  Neither part committed is empty.
C11_MinScoreSmallestAngle ==
    [][IsSplitStep =>
        LET area == Head(stack).area
            n == Head(stack).n
        IN  /\ stack'[1].area # {} /\ stack'[2].area # {}
            /\ \E k \in 1..NumAngles :
                  /\ ValidCandidate(area, k)
                  /\ stack'[1].area = MaskTrue(area, k)
                  /\ stack'[2].area = MaskFalse(area, k)
                  /\ \A j \in 1..NumAngles : ValidCandidate(area, j) =>
                        CandidateScore(area, n, j) >= CandidateScore(area, n, k)
                  /\ \A j \in 1..(k - 1) : ValidCandidate(area, j) =>
                        CandidateScore(area, n, j) > CandidateScore(area, n, k)]_vars

\* The first split of a run has just been committed, and a different
\* candidate of a larger angle had the same score as the one committed.
C11_Witness ==
    /\ pc = "running" /\ districts = <<>> /\ partitions_done = 0
    /\ Len(stack) = 2 /\ stack[1].n + stack[2].n = num_districts
    /\ \E k, j \in 1..NumAngles :
          /\ k < j
          /\ ValidCandidate(AllUnits, k) /\ ValidCandidate(AllUnits, j)
          /\ stack[1].area = MaskTrue(AllUnits, k)
          /\ stack[2].area = MaskFalse(AllUnits, k)
          /\ MaskTrue(AllUnits, j) # MaskTrue(AllUnits, k)
          /\ CandidateScore(AllUnits, num_districts, j)
                = CandidateScore(AllUnits, num_districts, k)
          /\ \A i \in 1..NumAngles : ValidCandidate(AllUnits, i) =>
                CandidateScore(AllUnits, num_districts, i)
                    >= CandidateScore(AllUnits, num_districts, k)

\* The ten angles from 0 to 180 degrees in steps of 20, both ends included.
ClosedIntervalAngles == {(180 * i) \div 9 : i \in 0..9}

\* The units of a region on the positive side of the line at an angle, and
\* the score of the split that line makes when the region gets n seats.
SidesAt ==
    Table([area \in Regions |->
        Table([angle \in ClosedIntervalAngles |->
            {u \in area : _calculate_side(area, u, angle)}])])
SideAt(area, angle) == SidesAt[area][angle]
ValidAt(area, angle) == SideAt(area, angle) # {} /\ SideAt(area, angle) # area
ScoreAt(area, n, angle) ==
    _calculate_split_score_static(state_data, Cfg, area,
        SideAt(area, angle), area \ SideAt(area, angle),
        PopulationOf(area) * SeatsFirst(n), n)

\* The first split of the run in progress has just been committed.
FirstSplitCommitted ==
    /\ pc = "running" /\ districts = <<>> /\ partitions_done = 0
    /\ Len(stack) = 2 /\ stack[1].n + stack[2].n = num_districts

\* C12 (amended): the candidate angles are the ten values 0, 20, ..., 180,
\* evenly spaced over the closed interval [0, 180], both ends included.  Every
\* committed split is the split at one of them, and each of the ten is
\* searched: whenever the split at one of these angles, 180 included, is
\* valid and scores strictly less than every valid split with other parts,
\* it is the split committed.
C12_AnglesClosedInterval ==
    /\ [][IsSplitStep =>
            \E a \in ClosedIntervalAngles :
                /\ stack'[1].area = SideAt(Head(stack).area, a)
                /\ stack'[2].area = Head(stack).area \ SideAt(Head(stack).area, a)]_vars
    /\ [][(/\ pc = "running" /\ stack # <<>>
           /\ Head(stack).n >= 2
           /\ PopulationOf(Head(stack).area) # 0) =>
            LET area == Head(stack).area
                n == Head(stack).n
                score == Table([a \in ClosedIntervalAngles |->
                             IF ValidAt(area, a) THEN ScoreAt(area, n, a) ELSE 0])
            IN  \A a \in ClosedIntervalAngles :
                  (/\ ValidAt(area, a)
                   /\ \A b \in ClosedIntervalAngles :
                         (ValidAt(area, b) /\ SideAt(area, b) # SideAt(area, a))
                            => score[b] > score[a])
                  => /\ Len(stack') = Len(stack) + 1
                     /\ stack'[1].area = SideAt(area, a)
                     /\ stack'[2].area = area \ SideAt(area, a)]_vars

\* The first split of a run has just been committed, and it is the split at
\* 180 degrees, which the line of no smaller angle makes.
C12_Witness ==
    /\ FirstSplitCommitted
    /\ stack[1].area = SideAt(AllUnits, 180)
    /\ \A a \in ClosedIntervalAngles \ {180} : stack[1].area # SideAt(AllUnits, a)

\* C12 (as claimed): the angles lie in the half-open interval [0, 180) and
\* 180 degrees is no candidate: the first split committed is one that a line
\* of an angle below 180 makes.
C12_AnglesHalfOpen ==
    FirstSplitCommitted =>
        \E a \in ClosedIntervalAngles \ {180} :
            /\ a < 180
            /\ stack[1].area = SideAt(AllUnits, a)

(***************************************************************************)
(* Properties of the two operating modes.                                  *)
(***************************************************************************)
\* C13 (as claimed): the weight a run scores its splits with follows from
\* the entry point alone: 0 in every divide_and_conquer() run, 1 in every
\* gerrymander() run for one seat or more, whatever the constructor was given
\* and whatever ran before on the same object.
C13_WeightByModeAlone ==
    (pc = "running" /\ num_districts >= 1) =>
        /\ algorithm = "fair" => partisan_weight = 0
        /\ algorithm = "gerrymander" => partisan_weight = 1

(***************************************************************************)
(* Properties of the progress values.                                      *)
(***************************************************************************)
\* floor(100 * k / total) for k >= 0 and total >= 1.
FloorPercent(k, total) == (100 * k) \div total

NonDecreasing(s) == \A i, j \in 1..Len(s) : i <= j => s[i] <= s[j]

\* C14 (amended): in a run for N >= 1 seats one value is emitted per leaf
\* reached and none at any other step; the values never decrease and lie in
\* 0..100; the k-th is int((k / N) * 100) computed in doubles, which is
\* floor(100 k / N) unless 100 k / N is a whole number m that the rounded
\* product falls short of, and then it is m - 1.
C14_ProgressPerLeaf ==
    /\ [](num_districts >= 1 =>
            /\ Len(emitted) = partitions_done
            /\ NonDecreasing(emitted)
            /\ \A k \in 1..Len(emitted) :
                  /\ emitted[k] \in 0..100
                  /\ \/ emitted[k] = FloorPercent(k, num_districts)
                     \/ /\ (100 * k) % num_districts = 0
                        /\ emitted[k] = FloorPercent(k, num_districts) - 1
                  /\ k = num_districts => emitted[k] = 100)
    /\ [][(pc = "running" /\ num_districts >= 1 /\ emitted' # emitted) =>
            /\ stack # <<>> /\ Head(stack).n <= 1
            /\ stack' = Tail(stack)
            /\ partitions_done' = partitions_done + 1
            /\ Len(emitted') = Len(emitted) + 1
            /\ SubSeq(emitted', 1, Len(emitted)) = emitted]_vars
    /\ [][(pc = "running" /\ num_districts >= 1 /\ stack # <<>>
             /\ Head(stack).n <= 1) => emitted' # emitted]_vars
    /\ [][IsSplitStep => emitted' = emitted]_vars

\* A run for 50 seats has reached 50 leaves: the 29th value emitted was 57,
\* where floor(100 * 29 / 50) is 58, and the last one is 100.
C14_Witness ==
    /\ pc = "done" /\ num_districts = 50
    /\ Len(emitted) = 50 /\ Len(districts) = 50
    /\ emitted[29] = 57 /\ emitted[28] = 56 /\ emitted[30] = 60
    /\ emitted[50] = 100

\* C14 (as claimed): the k-th value emitted in a run for N >= 1 seats is
\* floor(100 * k / N); the values never decrease and lie in 0..100.
C14_ProgressIsFloor ==
    num_districts >= 1 =>
        /\ NonDecreasing(emitted)
        /\ \A k \in 1..Len(emitted) :
              /\ emitted[k] \in 0..100
              /\ emitted[k] = FloorPercent(k, num_districts)

\* The object's weights with the partisan weight of a fair run.
FairCfg == [Cfg EXCEPT !.partisan_weight = 0]

\* The best split of a region under given weights, on the object's path.
BestSplitWith(cfg, area, n) ==
    IF use_gpu
    THEN _find_best_split_gpu(state_data, cfg, area, SeatsFirst(n), SeatsSecond(n))
    ELSE _find_best_split_cpu(state_data, cfg, area, SeatsFirst(n), SeatsSecond(n))

\* The districts a run under given weights returns for a region and n seats.
RECURSIVE PartitionWith(_, _, _)
PartitionWith(cfg, area, n) ==
    IF IsLeaf(n) THEN <<area>>
    ELSE LET best == BestSplitWith(cfg, area, n)
         IN  IF SplitFailed(best) THEN <<area>>
             ELSE PartitionWith(cfg, best.part1, SeatsFirst(n))
                    \o PartitionWith(cfg, best.part2, SeatsSecond(n))

GroupsOf(groups) == {groups[i] : i \in 1..Len(groups)}

\* The partisan composition of a part: how many of its units have a
\* partisan score above 0.5, and how many units it has.
Composition(part) ==
    <<Cardinality({u \in part : state_data[u].party > 5}), Cardinality(part)>>

\* |share1 - 1/2| + |share2 - 1/2| of the candidate at the k-th angle, as a
\* fraction <<numerator, denominator>>.
Spread(area, k) ==
    LET c1 == Composition(MaskTrue(area, k))
        c2 == Composition(MaskFalse(area, k))
    IN  <<Abs(2 * c1[1] - c1[2]) * c2[2] + Abs(2 * c2[1] - c2[2]) * c1[2],
          2 * c1[2] * c2[2]>>

\* The region has two valid candidates whose partisan compositions differ,
\* and not just by the order of the parts: their partisan costs differ.
DistinctCompositions(area) ==
    \E k, j \in 1..NumAngles :
        /\ ValidCandidate(area, k) /\ ValidCandidate(area, j)
        /\ {Composition(MaskTrue(area, k)), Composition(MaskFalse(area, k))}
             # {Composition(MaskTrue(area, j)), Composition(MaskFalse(area, j))}
        /\ Spread(area, k)[1] * Spread(area, j)[2]
             # Spread(area, j)[1] * Spread(area, k)[2]

\* All valid candidates of the region have the same partisan cost.
SameSpread(area) ==
    \A k, j \in 1..NumAngles :
        (ValidCandidate(area, k) /\ ValidCandidate(area, j)) =>
            Spread(area, k)[1] * Spread(area, j)[2]
                = Spread(area, j)[1] * Spread(area, k)[2]

\* Some region the fair run splits has candidates of distinct compositions.
RECURSIVE DistinctCompositionsSomewhere(_, _)
DistinctCompositionsSomewhere(area, n) ==
    /\ ~IsLeaf(n)
    /\ LET best == BestSplitWith(FairCfg, area, n)
       IN  /\ ~SplitFailed(best)
           /\ \/ DistinctCompositions(area)
              \/ DistinctCompositionsSomewhere(best.part1, SeatsFirst(n))
              \/ DistinctCompositionsSomewhere(best.part2, SeatsSecond(n))

\* At every region the fair run splits, all valid candidates have the same
\* partisan cost.
RECURSIVE SameSpreadEverywhere(_, _)
SameSpreadEverywhere(area, n) ==
    \/ IsLeaf(n)
    \/ LET best == BestSplitWith(FairCfg, area, n)
       IN  \/ SplitFailed(best)
           \/ /\ SameSpread(area)
              /\ SameSpreadEverywhere(best.part1, SeatsFirst(n))
              /\ SameSpreadEverywhere(best.part2, SeatsSecond(n))

\* C15 (amended): a gerrymander() run returns the very districts a fair run
\* on the same table and seat count returns whenever, at every region the
\* fair run splits, all valid candidates have the same partisan cost: the
\* two runs can differ only where the partisan cost tells candidates apart.
C15_SameCostSameDistricts ==
    (/\ pc = "done" /\ algorithm = "gerrymander" /\ num_districts >= 1
     /\ SameSpreadEverywhere(AllUnits, num_districts)) =>
        districts = PartitionWith(FairCfg, AllUnits, num_districts)

\* A gerrymander() run on units of both parties has returned two districts
\* or more, as the fair run does; the first region split had valid candidates
\* with different parts, all of the same partisan cost.
C15_Witness ==
    /\ pc = "done" /\ algorithm = "gerrymander" /\ num_districts >= 2
    /\ Len(districts) >= 2
    /\ SameSpreadEverywhere(AllUnits, num_districts)
    /\ \E k, j \in 1..NumAngles :
          /\ ValidCandidate(AllUnits, k) /\ ValidCandidate(AllUnits, j)
          /\ MaskTrue(AllUnits, k) # MaskTrue(AllUnits, j)
    /\ \E u, v \in AllUnits : state_data[u].party # state_data[v].party
    /\ districts = PartitionWith(FairCfg, AllUnits, num_districts)

\* C15 (as claimed): when some region the fair run splits has more than one
\* valid candidate and the candidates have distinct partisan compositions, a
\* gerrymander() run returns other groups than the fair run on the same
\* table and seat count.
C15_ModesDiverge ==
    (/\ pc = "done" /\ algorithm = "gerrymander" /\ num_districts >= 1
     /\ DistinctCompositionsSomewhere(AllUnits, num_districts)) =>
        GroupsOf(districts) # GroupsOf(PartitionWith(FairCfg, AllUnits, num_districts))

Adjacent(u, v) == Touches(u, v)

\* The adjacency graph of the region is one connected component: the region
\* is not empty, and every way of cutting it into two non-empty sets cuts an
\* edge.
SingleComponent(region) ==
    /\ region # {}
    /\ \A A \in SUBSET region :
          (A # {} /\ A # region) =>
              \E u \in A, v \in region \ A : Adjacent(u, v)

\* The units of the region a path of edges leads to from the units of S.
RECURSIVE ReachableFrom(_, _)
ReachableFrom(S, region) ==
    LET T == S \cup {v \in region : \E u \in S : Adjacent(u, v)}
    IN  IF T = S THEN S ELSE ReachableFrom(T, region)

\* C17: for a region of one unit or more, is_contiguous returns true if and
\* only if the adjacency graph of its units (an edge between two different
\* units whose squares touch) is one connected component, that is, if and
\* only if every unit is reachable from the first unit; so it returns true
\* for a region of one unit and false when some unit has no path to the
\* first.  The call leaves its argument as it was.
C17_ContiguousIffConnected ==
    /\ [](con_pc = "returned" /\ gdf # {} =>
            /\ con_result <=> SingleComponent(gdf)
            /\ con_result <=> ReachableFrom({FirstUnit(gdf)}, gdf) = gdf
            /\ Cardinality(gdf) = 1 => con_result
            /\ (\E v \in gdf : v \notin ReachableFrom({FirstUnit(gdf)}, gdf))
                    => ~con_result)
    /\ [][gdf' = gdf]_vars

\* The call has returned true for three units that touch only at corners.
C17_Witness ==
    /\ con_pc = "returned"
    /\ gdf = {<<0, 0>>, <<1, 1>>, <<2, 2>>}
    /\ con_result

(***************************************************************************)
(* Properties of the districts returned.                                   *)
(***************************************************************************)
\* C18 (as claimed): a finished run for one seat or more on a contiguous
\* table returns contiguous districts only.
C18_DistrictsContiguous ==
    (/\ pc = "done" /\ num_districts >= 1
     /\ AllUnits # {} /\ is_contiguous(AllUnits)) =>
        \A i \in 1..Len(districts) : is_contiguous(districts[i])

(***************************************************************************)
(* Properties of the community of interest.                                *)
(***************************************************************************)
\* The two parts both hold units of the community of interest.
DividesCoi(part1, part2) ==
    /\ part1 \cap communities_of_interest # {}
    /\ part2 \cap communities_of_interest # {}

\* The score of a candidate without its community-of-interest term: the
\* score the same weights give when no community is supplied.
OtherTerms(area, n, k) ==
    _calculate_split_score_static(state_data,
        [Cfg EXCEPT !.communities_of_interest = {}], area,
        MaskTrue(area, k), MaskFalse(area, k),
        PopulationOf(area) * SeatsFirst(n), n)

\* A fair run with a community of interest supplied, as the CLI's
\* COI-enforced call makes it: partisan weight 0, COI weight 1, VRA on.
CoiRun ==
    /\ algorithm = "fair" /\ partisan_weight = 0
    /\ communities_of_interest # {} /\ coi_weight = 1 /\ vra_compliance

Coerced(cell) ==
    CASE cell.form = "number" -> cell
      [] cell.form = "numeral" -> Number(cell.value)
      [] OTHER -> Number(0)

NumericColumns == {"P1_001N", "P1_003N"}

\* The object has been constructed.
Constructed == pc \notin {"new", "raised"}

GivenMalformed ==
    \E u \in DOMAIN given_data : \E col \in NumericColumns :
        given_data[u][col].form \in {"missing", "word"}

\* C21 (as claimed): a table given with a missing or malformed population
\* or population subtotal makes the request fail: no object is constructed
\* from it, so no run starts, no split is scored and no 0 stands in for the
\* bad value.
C21_MalformedFailsFast ==
    GivenMalformed => ~Constructed


(***************************************************************************)
(* Properties of the provider chain.                                       *)
(***************************************************************************)
\* The providers that stop the loop when their turn comes: one that yields
\* scores, and one that raises.
Stops(i) == provider_keys[i] \in {"scores", "raises"}

\* The position of the first provider that stops the loop, 0 if none does.
FirstStop ==
    IF \E i \in 1..Len(provider_keys) : Stops(i)
    THEN CHOOSE i \in 1..Len(provider_keys) :
            Stops(i) /\ \A j \in 1..(i - 1) : ~Stops(j)
    ELSE 0

\* The positions up to last that are registered, in list order.
RECURSIVE RegisteredUpTo(_)
RegisteredUpTo(last) ==
    IF last = 0 THEN <<>>
    ELSE IF provider_keys[last] = "unregistered"
         THEN RegisteredUpTo(last - 1)
         ELSE Append(RegisteredUpTo(last - 1), last)

\* C22: the providers are tried strictly in list order; an unregistered
\* one is passed over without being contacted, one that returns nothing or
\* an empty table is passed over after being contacted.  The first provider
\* that yields scores or raises ends the loop and no later one is
\* contacted: if it yielded scores the units hold them and it is the active
\* provider; if it raised, the units hold the neutral score 0.5 and
\* active_provider_meta is None, as they are when the list is exhausted.
C22_FirstStopWins ==
    attach_pc = "returned" =>
        LET stop == FirstStop
        IN  /\ contacted = RegisteredUpTo(IF stop = 0 THEN Len(provider_keys) ELSE stop)
            /\ IF stop # 0 /\ provider_keys[stop] = "scores"
               THEN partisan_score = "provider" /\ active_provider_meta = stop
               ELSE partisan_score = "neutral" /\ active_provider_meta = 0

\* A call has returned the neutral score although the provider after the
\* one that raised would have yielded scores.
C22_Witness ==
    /\ attach_pc = "returned"
    /\ Len(provider_keys) = 3
    /\ provider_keys[1] = "empty"
    /\ provider_keys[2] = "raises"
    /\ provider_keys[3] = "scores"
    /\ contacted = <<1, 2>>
    /\ partisan_score = "neutral"

\* C22 (as claimed): every provider that fails, by being unregistered,
\* returning nothing or raising, is passed over: the first provider of the
\* list that yields scores is used, and the neutral score is set only when
\* none of the list does.
C22_FirstSuccessWins ==
    attach_pc = "returned" =>
        IF \E i \in 1..Len(provider_keys) : provider_keys[i] = "scores"
        THEN /\ partisan_score = "provider"
             /\ provider_keys[active_provider_meta] = "scores"
             /\ \A j \in 1..(active_provider_meta - 1) : provider_keys[j] # "scores"
        ELSE partisan_score = "neutral" /\ active_provider_meta = 0


(***************************************************************************)
(* Properties of the VRA term.                                             *)
(***************************************************************************)
\* A region about to be split in a run with VRA compliance enabled.
VraSplitPending ==
    /\ pc = "running" /\ stack # <<>>
    /\ ~IsLeaf(Head(stack).n)
    /\ vra_compliance

\* C23: with VRA compliance enabled the VRA term is 0 for both parts in
\* either order at every candidate angle of every region a run splits (the
\* populations and subtotals of the units are non-negative), and the split
\* found is the one found with VRA compliance disabled.
C23_VraTermIsZero ==
    VraSplitPending =>
        LET area == Head(stack).area
            n == Head(stack).n
        IN  /\ \A k \in 1..NumAngles :
                  /\ VraScore(state_data, area, MaskTrue(area, k),
                              MaskFalse(area, k), vra_compliance) = 0
                  /\ VraScore(state_data, area, MaskFalse(area, k),
                              MaskTrue(area, k), vra_compliance) = 0
            /\ BestSplit(area, n)
                  = BestSplitWith([Cfg EXCEPT !.vra_compliance = FALSE], area, n)

\* A region is about to be split whose minority share is above 0.3, and at
\* some angle one part's share is strictly below the region's, while the
\* other part's is strictly above and both parts have population.
C23_Witness ==
    /\ VraSplitPending
    /\ LET area == Head(stack).area
           ma == MinorityShare(state_data, area)
       IN  /\ FracLess(<<3, 10>>, ma)
           /\ \E k \in 1..NumAngles :
                 /\ ValidCandidate(area, k)
                 /\ ColSum(state_data, MaskTrue(area, k), "P1_001N") > 0
                 /\ ColSum(state_data, MaskFalse(area, k), "P1_001N") > 0
                 /\ FracLess(MinorityShare(state_data, MaskTrue(area, k)), ma)
                 /\ FracLess(ma, MinorityShare(state_data, MaskFalse(area, k)))


(***************************************************************************)
(* Properties of the number of groups returned.                            *)
(***************************************************************************)
\* The seats still to be handed out to the regions on the call stack.
RECURSIVE SeatsPending(_)
SeatsPending(st) ==
    IF st = <<>> THEN 0 ELSE Head(st).n + SeatsPending(Tail(st))

\* The groups returned so far that are regions returned undivided: every
\* group is returned by a leaf, which counts itself, or by the fallback,
\* which does not.
FellBack == Len(districts) - partitions_done

\* C24: in a run for N >= 1 seats on a non-empty table every group returned
\* is non-empty, and the groups returned plus the seats still pending never
\* exceed N and equal N exactly when no region fell back so far; so the run
\* returns at least 1 and at most N groups, and exactly N when and only
\* when no region was returned undivided.  A step returns a group without
\* counting a leaf only where the region on top, with 2 seats or more, has
\* no valid split.
C24_GroupCount ==
    /\ []((pc \in {"running", "done"} /\ num_districts >= 1 /\ AllUnits # {}) =>
            /\ \A i \in 1..Len(districts) : districts[i] # {}
            /\ FellBack >= 0
            /\ Len(districts) + SeatsPending(stack) <= num_districts
            /\ (Len(districts) + SeatsPending(stack) = num_districts) <=> (FellBack = 0)
            /\ pc = "done" =>
                  /\ Len(districts) \in 1..num_districts
                  /\ (Len(districts) = num_districts) <=> (FellBack = 0))
    /\ [][(/\ pc = "running" /\ num_districts >= 1 /\ AllUnits # {}
           /\ Len(districts') = Len(districts) + 1
           /\ partitions_done' = partitions_done) =>
              /\ Head(stack).n >= 2
              /\ SplitFailed(BestSplit(Head(stack).area, Head(stack).n))
              /\ districts' = Append(districts, Head(stack).area)]_vars

\* A run for 4 seats has returned 3 groups: one region with 2 seats fell
\* back, two leaves were counted.
C24_Witness ==
    /\ pc = "done" /\ num_districts = 4
    /\ Len(districts) = 3 /\ partitions_done = 2


(***************************************************************************)
(* Properties of progress across runs.                                     *)
(***************************************************************************)
\* The last value emitted in the run, 0 - 1 when none was.
LastEmitted == IF emitted = <<>> THEN 0 - 1 ELSE emitted[Len(emitted)]

C26_ReturnedPathExists ==
    (shape_pc = "returned" /\ shapefile_path \in ShpNames) =>
        (shapefile_dir /\ shapefile_path \in shapefiles)


(***************************************************************************)
(* Properties of RedistrictingWorker.run.                                  *)
(***************************************************************************)
\* C27 (as claimed): a call of run() with both callbacks set reports one
\* outcome: finished when the partitioner is constructed and its entry
\* point returns, error otherwise; with or without a COI file.
C27_ExactlyOneOutcome ==
    (run_pc = "returned" /\ finished_callback /\ error_callback) =>
        /\ finished_calls + error_calls = 1
        /\ finished_calls = 1 <=> run_outcome = "returns"


(***************************************************************************)
(* Properties of _with_retries.                                            *)
(***************************************************************************)
\* The first call among the first `retries` that returns, 0 if none does.
FirstOk ==
    IF \E k \in 1..retries : func_outcomes[k] = "ok"
    THEN CHOOSE k \in 1..retries :
            func_outcomes[k] = "ok" /\ \A j \in 1..(k - 1) : func_outcomes[j] = "raise"
    ELSE 0

\* C28: with retries >= 1, func is called at most retries times; each
\* call but the first follows a failed call and one sleep of
\* base_delay * 2^(attempt - 1) plus a jitter below 0.2 s, so that there is
\* one sleep fewer than calls and none after the last call; the call ends
\* at the first call of func that returns, with that call's value, and when
\* all retries calls raise it ends with the exception of the last one.
C28_RetriesWithBackoff ==
    retries >= 1 =>
        /\ retry_calls <= retries
        /\ \A k \in 1..Len(retry_sleeps) :
              /\ func_outcomes[k] = "raise"
              /\ retry_sleeps[k] - base_delay * 2 ^ (k - 1) \in Jitter
        /\ retry_pc = "called" =>
              /\ retry_calls = attempt - 1
              /\ Len(retry_sleeps) = retry_calls
              /\ retry_result = Pending
        /\ retry_pc = "returned" =>
              /\ retry_calls >= 1
              /\ Len(retry_sleeps) = retry_calls - 1
              /\ IF FirstOk # 0
                 THEN retry_result = Returned(FirstOk) /\ retry_calls = FirstOk
                 ELSE retry_result = Raised(retries) /\ retry_calls = retries

\* With 3 retries the first two calls raised and the third returned: two
\* sleeps of about 1 and 2 base delays, none after the third call.
C28_Witness ==
    /\ retry_pc = "returned" /\ retries = 3 /\ base_delay = 10
    /\ retry_calls = 3
    /\ retry_result = Returned(3)
    /\ retry_sleeps = <<10, 21>>


(***************************************************************************)
(* Properties of _ensure_dataset_file.                                     *)
(***************************************************************************)
\* C29: whenever the last call returned cache_path, the file there is the
\* completely downloaded dataset.
C29_ReturnedFileComplete ==
    (dataset_returns # <<>> /\ dataset_returns[Len(dataset_returns)] = "cache_path")
        => (cache_exists /\ cache_size = DatasetChunks)


(***************************************************************************)
(* House monotonicity of calculate_apportionment.                          *)
(***************************************************************************)
\* The seats returned for the same populations and a house one seat smaller.
SeatsOfSmallerHouse == calculate_apportionment(state_populations, house_size - 1)

=============================================================================
